---- MODULE Spec2Model ----
(***************************************************************************)
(* Model of the task executor of opencode-feishu-bridge                    *)
(* (src/src/executor/opencode-executor.ts, class OpencodeExecutor).        *)
(*                                                                         *)
(* The executor runs on the Node.js event loop.  A handler runs to its end *)
(* without interruption; the only suspension point inside the executor is  *)
(* `await this.resolveModel()` in startTask.  A suspended startTask is      *)
(* resumed from the microtask queue, that is before any timer or process   *)
(* event is delivered, but after the synchronous code of the caller, which *)
(* may call execute() or cancelTask() again in the meantime.               *)
(*                                                                         *)
(* Time is counted in abstract units; the idle window is IdleWindow units. *)
(* A timer that is due fires before time advances further.                 *)
(***************************************************************************)
EXTENDS Integers, Sequences, FiniteSets, TLC

\* ---- bounds of the model ------------------------------------------------
maxConcurrent == 1     \* config.opencode.maxConcurrentTasks
IdleWindow == 2        \* config.opencode.timeout, in time units
MaxTasks == 1          \* execute() calls in Spec
QueueTasks == 3        \* execute() calls in QueueSpec
ParserTasks == 1       \* execute() calls in ParserSpec
RegistryTasks == 4     \* tasks added to the session registry in RegistrySpec
MAX_HISTORY == 2       \* config.session.maxHistory
NotifyTasks == 1       \* tasks dispatched in NotifySpec
SuppressTasks == 2     \* tasks dispatched in SuppressSpec
MaxInflight == 2       \* listeners waiting for the platform before a further event
StreamingInterval == 1       \* config.opencode.streamingInterval, in time units
NormalProgressInterval == 2  \* config.opencode.normalProgressInterval, in time units
BridgeTasks == 2       \* tasks dispatched in BridgeSpec
MaxTextLen == 3        \* tokens of a message text in HandlerSpec
ChatTasks == 1         \* tasks dispatched in ChatSpec
MaxClassifierChunks == 2  \* stdout chunks of the classifier process

Min(a, b) == IF a < b THEN a ELSE b
Max(a, b) == IF a > b THEN a ELSE b

MaxElapsed == IdleWindow + 1

Tasks == 1..Max(Max(Max(MaxTasks, QueueTasks), Max(ParserTasks, BridgeTasks)),
             Max(Max(ChatTasks, RegistryTasks), Max(NotifyTasks, SuppressTasks)))

\* ---- the bridge: sessions, models --------------------------------------
Users == {"u1", "u2"}
Chats == {"c1"}

\* findSessionId(userId, chatId): `${userId}:${chatId}`; the ids of the chat
\* platform hold no colon, so the key is the pair
findSessionId(userId, chatId) == <<userId, chatId>>

Sessions == {findSessionId(u, c) : u \in Users, c \in Chats}
NoBridge == <<>>          \* taskBridgeSession has no entry
NoModel == ""             \* no model
Models == {"M1"}          \* model ids a user may set with /model <id>
ResolvedModel == "M0"     \* what resolveModel() finds

\* config.opencode.notifyDefaultMode when the environment does not set it
DEFAULT_NOTIFY_MODE == "quiet"

NoSession == "none"
\* pendingProgress has no entry for the task
NoProgress == [has |-> FALSE, chunks |-> {}]
LineKinds == {"raw", "session", "session2", "step", "text"}
SpawnOutcomes == {"throw", "alive"}
ExitCodes == {0, 1}

TerminalEvents ==
  {"completed", "error", "cancelled:user_request", "cancelled:timeout_no_progress"}


VARIABLES
  \* what the environment does in a behaviour, fixed by the initial state:
  \* the number of execute() calls and the stdout chunks a process may write
  limit,
  \* configuration, fixed at construction
  timeoutMs,            \* config.opencode.timeout (0 = watchdog disabled)
  progressStatusOnly,   \* config.opencode.progressStatusOnly (on unless the env says 'false')
  \* OpencodeExecutor fields
  nextId,               \* ids handed out by generateTaskId so far + 1
  status,               \* taskStore[id].status ("none" = no such task yet)
  taskError,            \* taskStore[id].error
  hasModel,             \* taskStore[id].model is set (resolveModel() finds a model)
  sessionId,            \* taskStore[id].opencodeSessionId
  output,               \* taskStore[id].output, as the set of fragments pushed
  duration,             \* taskStore[id].duration: "unset", or completedAt minus
                        \* "createdAt" or minus the RunningTask's "startTime"
  runningTasks,         \* keys of the runningTasks map
  taskQueue,            \* taskQueue (ids, head first)
  runningCount,         \* runningCount
  awaiting,             \* startTask calls suspended at `await resolveModel()`
  \* OpenCodeFeishuBridge fields
  sessionModel,         \* sessionModelByBridgeSession (NoModel = no entry)
  lastKnownModel,       \* lastKnownModelByBridgeSession
  opencodeSession,      \* opencodeSessionByBridgeSession (NoSession = no entry)
  taskBridgeSession,    \* taskBridgeSession (NoBridge = no entry)
  taskModel,            \* the model the bridge passed to execute() for the task
  \* RunningTask fields
  finalized,            \* runningTask.finalized
  timer,                \* time left on runningTask.timeoutHandle, -1 = not pending
  stdoutBuffer,         \* runningTask.stdoutBuffer: "" or the kind of the partial line
  lastSig,              \* runningTask.lastProgressSignature
  grace,                \* a 5-second escalation timer of cancelTask is pending
  \* child process
  proc,                 \* "none", "alive", "exited" (streams still open), "closed"
  killed,               \* ChildProcess.killed
  signals,              \* signals delivered to the process
  errFired,             \* the 'error' event was delivered
  \* observation
  lastEvent,            \* the lifecycle event emitted last for the task
  wasQueued,            \* execute() put the task in the queue
  terminals,            \* how many terminal events were emitted for it: 0, 1, 2 = several
  late,                 \* an event that is not terminal followed a terminal one
  heldAtTerminal,       \* a terminal event was emitted while the task was in the running map
  cancelRequested,      \* cancelTask was called for the task, then pending or running and not over yet
  startOrder,           \* task ids in the order of their task:started events
  sinceChunk,           \* running task: time since spawn or the last chunk, capped at IdleWindow
  sinceSpawn,           \* running task: time since spawn, capped at MaxElapsed
  origin,               \* the session the task was dispatched in (NoBridge = none)
  reported,             \* per session: the id its tasks reported last, since the last reset
  \* MessageHandler: the session registry
  taskHistory,          \* sessions[id].taskHistory, as the ids of its entries
  taskSessionIndex,     \* taskSessionIndex (NoBridge = no entry)
  addOrder,             \* per session: task ids in the order of their addTaskToSession calls
  \* OpenCodeFeishuBridge: per-task state of the lifecycle listeners
  responseMode,         \* taskResponseMode ("none" = no entry)
  infoMode,             \* taskStore[id].responseMode ("none" = not given)
  pendingProgress,      \* pendingProgress: whether there is an entry, and its lines
  lastUpdateTime,       \* lastUpdateTime, as the time since it was set; -1 = no entry
  taskAttachedFiles,    \* taskAttachedFiles has an entry for the task
  inflight,             \* listeners suspended at an await of the chat platform or of rm()
  \* observation of the chat
  lastSent,             \* the kind of message the bridge handed to the platform last for the task
  sinceMsg,             \* time since the last started or throttled progress message; -1 = none yet
  early,                \* the message handed last is a throttled progress message sooner than its interval
  owed,                 \* lines that were pending when a terminal event came and are not sent yet
  unhandled,            \* a listener of the task ended with a rejected promise
  handled,              \* a terminal listener of the task has run to its end
  progressText,         \* the status the last task:progress event of the task carried
  repeated,             \* a task:progress event carried the status of the one before it
  suppressed,           \* emitProgress has dropped a status of the task as a duplicate
  threw,                \* an exception left a stdout or close listener of the task
  stdoutFeed,           \* the stdout of one process byte by byte, and its parser
  cleared,              \* per session: /new or a /model command took effect, no task dispatched since
  modelReset,           \* per session: /model reset was handled, no /model <id> since
  staged,               \* pendingFilesBySession as lists of paths, the paths each task was given
  inbound,              \* the event handleIncomingMessage was called with last, and what it did
  completion,           \* the output handleTaskComplete built a card for, its detail and follow-up
  \* MessageHandler
  requireMention,       \* config.security.requireMention
  message,              \* the message handleMessage was called with last
  botResponse,          \* what handleMessage returned for it
  \* routing and delivery
  intentRoutingEnabled, \* config.opencode.intentRoutingEnabled
  resultCardEnabled,    \* config.opencode.resultCardEnabled
  classifier,           \* the closure of the classifyIntent call in progress
  answered,             \* the completion of the task was sent to the chat
  sendLog,              \* the last call of sendBotResponse and what it sent
  \* per-session settings of the bridge
  sessionNotifyMode,    \* sessionNotifyMode ("none" = no entry)
  pendingFiles,         \* pendingFilesBySession holds files for the session
  routingDefault        \* defaultMode of the resolveResponseMode call in progress

coreVars == <<limit, timeoutMs, progressStatusOnly, nextId, status, taskError, hasModel,
          sessionId, output, duration, runningTasks, taskQueue, runningCount, awaiting,
          finalized, timer, stdoutBuffer, lastSig, grace, proc, killed, signals,
          errFired, lastEvent, wasQueued, terminals, late, heldAtTerminal,
          cancelRequested, startOrder, sinceChunk, sinceSpawn,
          sessionModel, lastKnownModel, opencodeSession, taskBridgeSession,
          taskModel, origin, reported, taskHistory, taskSessionIndex, addOrder,
          responseMode, infoMode, pendingProgress, lastUpdateTime,
          taskAttachedFiles, inflight, lastSent, sinceMsg, early, owed, unhandled,
          handled, progressText, repeated, suppressed, threw, stdoutFeed, cleared,
          modelReset, staged, inbound, completion>>

handlerVars == <<requireMention, message, botResponse>>

frontVars == <<intentRoutingEnabled, resultCardEnabled, classifier, answered, sendLog>>

modeVars == <<sessionNotifyMode, pendingFiles, routingDefault>>

vars == <<coreVars, handlerVars, frontVars, modeVars>>

\* The mutable state as one record, so that the methods of the executor can be
\* written as functions from state to state and composed as the code calls them.
Cur ==
  [nextId |-> nextId, status |-> status, taskError |-> taskError,
   hasModel |-> hasModel, sessionId |-> sessionId, output |-> output,
   duration |-> duration,
   runningTasks |-> runningTasks, taskQueue |-> taskQueue,
   runningCount |-> runningCount, awaiting |-> awaiting,
   finalized |-> finalized, timer |-> timer, stdoutBuffer |-> stdoutBuffer,
   lastSig |-> lastSig, grace |-> grace, proc |-> proc, killed |-> killed,
   signals |-> signals, errFired |-> errFired, lastEvent |-> lastEvent,
   wasQueued |-> wasQueued,
   terminals |-> terminals, late |-> late, heldAtTerminal |-> heldAtTerminal,
   cancelRequested |-> cancelRequested,
   startOrder |-> startOrder, sinceChunk |-> sinceChunk,
   sinceSpawn |-> sinceSpawn,
   sessionModel |-> sessionModel, lastKnownModel |-> lastKnownModel,
   opencodeSession |-> opencodeSession, taskBridgeSession |-> taskBridgeSession,
   taskModel |-> taskModel, origin |-> origin, reported |-> reported,
   taskHistory |-> taskHistory, taskSessionIndex |-> taskSessionIndex,
   addOrder |-> addOrder,
   responseMode |-> responseMode, infoMode |-> infoMode,
   pendingProgress |-> pendingProgress, lastUpdateTime |-> lastUpdateTime,
   taskAttachedFiles |-> taskAttachedFiles, inflight |-> inflight,
   lastSent |-> lastSent, sinceMsg |-> sinceMsg, early |-> early, owed |-> owed,
   unhandled |-> unhandled, handled |-> handled,
   progressText |-> progressText, repeated |-> repeated, suppressed |-> suppressed,
   threw |-> threw, stdoutFeed |-> stdoutFeed, cleared |-> cleared,
   modelReset |-> modelReset, staged |-> staged, inbound |-> inbound,
   completion |-> completion]

CommitCore(s) ==
  /\ nextId' = s.nextId
  /\ status' = s.status
  /\ taskError' = s.taskError
  /\ hasModel' = s.hasModel
  /\ sessionId' = s.sessionId
  /\ output' = s.output
  /\ duration' = s.duration
  /\ runningTasks' = s.runningTasks
  /\ taskQueue' = s.taskQueue
  /\ runningCount' = s.runningCount
  /\ awaiting' = s.awaiting
  /\ finalized' = s.finalized
  /\ timer' = s.timer
  /\ stdoutBuffer' = s.stdoutBuffer
  /\ lastSig' = s.lastSig
  \* the escalation timer of a closed process is dropped: its callback does
  \* nothing then, kill() on a closed process neither signals nor sets killed
  /\ grace' = [t \in Tasks |-> s.grace[t] /\ s.proc[t] # "closed"]
  /\ proc' = s.proc
  /\ killed' = s.killed
  /\ signals' = s.signals
  /\ errFired' = s.errFired
  /\ lastEvent' = s.lastEvent
  /\ wasQueued' = s.wasQueued
  /\ terminals' = s.terminals
  /\ late' = s.late
  /\ heldAtTerminal' = s.heldAtTerminal
  \* a request is remembered until the task is over
  /\ cancelRequested' = [t \in Tasks |-> s.cancelRequested[t] /\ ~s.finalized[t]
                                          /\ s.taskError[t] # "spawn"]
  /\ startOrder' = s.startOrder
  \* the clocks of the observer run for the tasks in the running map only
  /\ sinceChunk' = [t \in Tasks |-> IF t \in s.runningTasks THEN s.sinceChunk[t] ELSE 0]
  /\ sinceSpawn' = [t \in Tasks |-> IF t \in s.runningTasks THEN s.sinceSpawn[t] ELSE 0]
  /\ sessionModel' = s.sessionModel
  /\ lastKnownModel' = s.lastKnownModel
  /\ opencodeSession' = s.opencodeSession
  /\ taskBridgeSession' = s.taskBridgeSession
  /\ taskModel' = s.taskModel
  /\ origin' = s.origin
  /\ reported' = s.reported
  /\ taskHistory' = s.taskHistory
  /\ taskSessionIndex' = s.taskSessionIndex
  /\ addOrder' = s.addOrder
  /\ responseMode' = s.responseMode
  /\ infoMode' = s.infoMode
  /\ pendingProgress' = s.pendingProgress
  /\ lastUpdateTime' = s.lastUpdateTime
  /\ taskAttachedFiles' = s.taskAttachedFiles
  /\ inflight' = s.inflight
  /\ lastSent' = s.lastSent
  /\ sinceMsg' = s.sinceMsg
  /\ early' = s.early
  /\ owed' = s.owed
  /\ unhandled' = s.unhandled
  /\ handled' = s.handled
  /\ progressText' = s.progressText
  /\ repeated' = s.repeated
  /\ suppressed' = s.suppressed
  /\ threw' = s.threw
  /\ stdoutFeed' = s.stdoutFeed
  /\ cleared' = s.cleared
  /\ modelReset' = s.modelReset
  /\ staged' = s.staged
  /\ inbound' = s.inbound
  /\ completion' = s.completion
  /\ UNCHANGED <<limit, timeoutMs, progressStatusOnly>>

\* a step of the executor and the session maps alone
Commit(s) == CommitCore(s) /\ UNCHANGED <<handlerVars, frontVars, modeVars>>

\* ---- the session registry of the message handler --------------------------

\* the position of the task in a history, 0 if it is not there
findIndex(history, t) ==
  IF \E i \in 1..Len(history) : history[i] = t
  THEN CHOOSE i \in 1..Len(history) :
         history[i] = t /\ \A j \in 1..(i - 1) : history[j] # t
  ELSE 0

\* taskHistory.slice(-MAX_HISTORY) when the history is over capacity
truncate(history) ==
  IF Len(history) > MAX_HISTORY
  THEN SubSeq(history, Len(history) - MAX_HISTORY + 1, Len(history))
  ELSE history

\* taskHistory[existingIndex] = task if the task is there, or else push(task):
\* the entry is the TaskInfo object of the task itself
putTask(history, t) ==
  IF findIndex(history, t) > 0 THEN history ELSE Append(history, t)

\* updateTask(task); a session is never removed from the registry
updateTask(s, t) ==
  LET b == s.taskSessionIndex[t]
  IN  IF b = NoBridge THEN s
      ELSE [s EXCEPT !.taskHistory[b] =
                       IF findIndex(@, t) > 0 THEN putTask(@, t)
                       ELSE truncate(putTask(@, t))]

\* addTaskToSession(sessionId, task), the session being in the registry
addTaskToSession(s, b, t) ==
  [s EXCEPT !.taskHistory[b] = truncate(putTask(@, t)),
            !.taskSessionIndex[t] = b,
            !.addOrder[b] = IF findIndex(@, t) > 0 THEN @ ELSE Append(@, t)]

\* this.emit(event, {task}), as seen by a listener that keeps, per task, the
\* last event it got, how many terminal events it got, whether any other
\* event came after a terminal one, and whether the task was still in the
\* running map (getRunningCount() counting it) when a terminal event came
Observe(s, t, e) ==
  [s EXCEPT !.lastEvent[t] = e,
            !.terminals[t] = IF e \in TerminalEvents THEN Min(2, @ + 1) ELSE @,
            !.late[t] = @ \/ (e \notin TerminalEvents /\ s.terminals[t] > 0),
            !.heldAtTerminal[t] = @ \/ (e \in TerminalEvents /\ t \in s.runningTasks),
            !.reported = IF e = "session" /\ s.origin[t] # NoBridge
                         THEN [@ EXCEPT ![s.origin[t]] = s.sessionId[t]] ELSE @]

\* the task's model as the listeners see it: taskInfo.model
TaskInfoModel(s, t) ==
  IF s.taskModel[t] # NoModel THEN s.taskModel[t]
  ELSE IF s.hasModel[t] THEN ResolvedModel ELSE NoModel

\* the bridge's listener of task:session
OnTaskSession(s, t) ==
  LET b == s.taskBridgeSession[t]
  IN  IF b = NoBridge THEN s
      ELSE [s EXCEPT !.opencodeSession[b] = s.sessionId[t]]

\* rememberTaskModel(task)
rememberTaskModel(s, t) ==
  LET b == s.taskBridgeSession[t]
  IN  IF TaskInfoModel(s, t) = NoModel \/ b = NoBridge THEN s
      ELSE [s EXCEPT !.lastKnownModel[b] = TaskInfoModel(s, t)]

\* the bridge's listeners of task:completed, task:error and task:cancelled, as
\* far as the session maps go, with no progress to flush and no file to remove
OnTaskTerminal(s, t) ==
  [rememberTaskModel(s, t) EXCEPT !.taskBridgeSession[t] = NoBridge]

\* ---- completion responses ------------------------------------------------

\* formatFinalOutput(task.output.join('')) for short plain output
formatFinalOutput(out) == IF out = {} THEN "" ELSE "result"

\* shouldUseCompletionCard(mode, output) for short plain output
shouldUseCompletionCard(mode, out) ==
  IF ~resultCardEnabled THEN FALSE
  ELSE mode # "silent"

\* buildCompletionFallbackText(task, output, mode)
buildCompletionFallbackText(out, mode) ==
  IF mode = "silent" THEN (IF out = "" THEN "no-reply" ELSE out)
  ELSE IF out = "" THEN "done:no-output" ELSE "done:result"

\* handleTaskComplete(task, {mode})
handleTaskComplete(s, t, mode) ==
  LET out == formatFinalOutput(s.output[t])
  IN  [card |-> shouldUseCompletionCard(mode, out),
       text |-> buildCompletionFallbackText(out, mode),
       followupText |-> ""]

\* ---- the lifecycle listeners of the bridge ---------------------------------

\* the chat platform is part of the environment of the behaviour: the sends
\* of the listeners are followed
Reporting == "sends" \in DOMAIN limit

ProgressModes == {"normal", "debug"}

\* DEBUG_PROGRESS_INTERVAL and NORMAL_PROGRESS_INTERVAL
DEBUG_PROGRESS_INTERVAL == StreamingInterval
NORMAL_PROGRESS_INTERVAL == Max(StreamingInterval, NormalProgressInterval)

Interval(mode) ==
  IF mode = "debug" THEN DEBUG_PROGRESS_INTERVAL ELSE NORMAL_PROGRESS_INTERVAL

\* times since an update are counted up to the longest interval
MaxAge == NORMAL_PROGRESS_INTERVAL

\* a response that is a text only
TextResponse(text) == [card |-> FALSE, text |-> text, followupText |-> ""]

\* getTaskResponseMode(task.id, task.responseMode)
getTaskResponseMode(s, t) ==
  IF s.responseMode[t] # "none" THEN s.responseMode[t]
  ELSE IF s.infoMode[t] # "none" THEN s.infoMode[t]
  ELSE DEFAULT_NOTIFY_MODE

\* a listener suspended at `await`: at says where, event and mode are the
\* locals of a terminal listener, response is the message handed to the
\* platform and lines what it was built from
Suspended(t, at, e, mode, response, lines) ==
  [task |-> t, at |-> at, event |-> e, mode |-> mode, response |-> response,
   lines |-> lines]

\* `await this.sendBotResponse(...)` or `await this.bot.sendMessage(...)`: the
\* message is handed to the platform and the listener is suspended
awaitSend(s, t, at, e, mode, response, lines) ==
  [s EXCEPT !.inflight = @ \cup {Suspended(t, at, e, mode, response, lines)},
            !.lastSent[t] = at,
            !.early[t] = at = "progress" /\ s.sinceMsg[t] # -1
                           /\ s.sinceMsg[t] < Interval(mode),
            !.sinceMsg[t] = IF at \in {"started", "progress"} THEN 0 ELSE @,
            !.owed[t] = IF at = "flush" THEN {} ELSE @]

\* shouldSendUpdate(taskId, mode): a task without entry counts from time 0
shouldSendUpdate(s, t, mode) ==
  IF mode \in {"silent", "quiet"} THEN FALSE
  ELSE s.lastUpdateTime[t] = -1 \/ s.lastUpdateTime[t] >= Interval(mode)

\* isLowValueProgress(line): the status of a plain step is of low value, the
\* warning about stderr output is not
isLowValueProgress(line) == line = "step"

\* queueProgress(taskId, progress, mode)
queueProgress(s, t, progress, mode) ==
  LET chunks == s.pendingProgress[t].chunks
      kept == IF mode = "normal" /\ isLowValueProgress(progress) THEN chunks
              ELSE chunks \cup {progress}
  IN  [s EXCEPT !.pendingProgress[t] = [has |-> TRUE, chunks |-> kept]]

\* flushProgress gets as far as sending
flushes(s, t, force, mode) ==
  s.pendingProgress[t].chunks # {} /\ (force \/ shouldSendUpdate(s, t, mode))

\* flushProgress that honours the throttle also when forced
flushProgress_Throttled(s, t, force, mode, e) ==
  IF ~flushes(s, t, FALSE, mode) THEN s
  ELSE LET s1 == [s EXCEPT !.pendingProgress[t] = [has |-> TRUE, chunks |-> {}]]
       IN  awaitSend(updateTask(s1, t), t, IF force THEN "flush" ELSE "progress",
                     e, mode, TextResponse("progress"), s.pendingProgress[t].chunks)

\* flushProgress(task, force, mode), up to `await this.sendBotResponse`;
\* handleTaskProgress updates the task and returns a text that is not empty
flushProgress(s, t, force, mode, e) ==
  IF ~flushes(s, t, force, mode) THEN s
  ELSE LET s1 == [s EXCEPT !.pendingProgress[t] = [has |-> TRUE, chunks |-> {}]]
       IN  awaitSend(updateTask(s1, t), t, IF force THEN "flush" ELSE "progress",
                     e, mode, TextResponse("progress"), s.pendingProgress[t].chunks)

\* cleanupProgressState(taskId)
cleanupProgressState(s, t) ==
  [s EXCEPT !.pendingProgress[t] = NoProgress, !.lastUpdateTime[t] = -1]

\* a terminal listener from `this.taskResponseMode.delete` to the await of the
\* send of its response
terminalReport(s, t, e, mode) ==
  LET s1 == [s EXCEPT !.responseMode[t] = "none"]
      s2 == [rememberTaskModel(s1, t) EXCEPT !.taskBridgeSession[t] = NoBridge]
      s3 == updateTask(s2, t)
      response == IF e = "completed" THEN handleTaskComplete(s3, t, mode)
                  ELSE IF e = "error" THEN TextResponse("failed")
                  ELSE TextResponse("status")
  IN  awaitSend(s3, t, "final", e, mode, response, {})

\* a terminal listener from cleanupProgressState on: cleanupTaskFiles awaits
\* rm() if the task has attached files
terminalCleanup(s, t, e, mode) ==
  LET s1 == cleanupProgressState(s, t)
  IN  IF s1.taskAttachedFiles[t]
      THEN [s1 EXCEPT !.taskAttachedFiles[t] = FALSE,
                      !.inflight = @ \cup {Suspended(t, "rm", e, mode,
                                                     TextResponse(""), {})}]
      ELSE terminalReport(s1, t, e, mode)

\* the listener of task:queued
OnTaskQueued(s, t) ==
  LET s1 == updateTask(s, t)
      mode == getTaskResponseMode(s, t)
  IN  IF mode = "silent" THEN s1
      ELSE awaitSend(s1, t, "queued", "queued", mode, TextResponse("queued"), {})

\* the listener of task:started without its test of the silent mode
OnTaskStarted_Always(s, t) ==
  LET mode == getTaskResponseMode(s, t)
  IN  awaitSend([updateTask(s, t) EXCEPT !.lastUpdateTime[t] = 0], t, "started",
                "started", mode, TextResponse("started"), {})

\* the listener of task:started
OnTaskStarted(s, t) ==
  LET mode == getTaskResponseMode(s, t)
      s1 == updateTask(s, t)
  IN  IF mode = "silent" THEN s1
      ELSE awaitSend([s1 EXCEPT !.lastUpdateTime[t] = 0], t, "started", "started",
                     mode, TextResponse("started"), {})

\* the listener of task:progress; the progress is the status just emitted
OnTaskProgress(s, t) ==
  LET mode == getTaskResponseMode(s, t)
  IN  IF mode \in {"silent", "quiet"} THEN s
      ELSE flushProgress(queueProgress(s, t, s.progressText[t], mode), t, FALSE, mode,
                         "progress")

\* a terminal listener behind `await this.flushProgress(...)`: s2 is s1 if
\* flushProgress returned at once, else the listener waits for the send
afterFlush(s1, s2, t, e, mode) ==
  IF s2 # s1 THEN s2 ELSE terminalCleanup(s1, t, e, mode)

\* the listeners of task:completed, task:error and task:cancelled: a
\* flushProgress that sends is awaited, one that returns at once is followed by
\* the cleanup
OnTaskEnd(s, t, e) ==
  LET mode == getTaskResponseMode(s, t)
      s1 == [s EXCEPT !.owed[t] = IF mode \in ProgressModes
                                  THEN @ \cup s.pendingProgress[t].chunks ELSE @]
  IN  afterFlush(s1, IF mode \in ProgressModes
                     THEN flushProgress(s1, t, TRUE, mode, e) ELSE s1, t, e, mode)

\* the name of the event without the reason of a cancellation
EventName(e) == IF e \in {"completed", "error"} THEN e ELSE "cancelled"

\* this.emit(event, {task}): the listeners run within the call, each up to its
\* first await of the chat platform or of the file system.  A listener that
\* awaits a call which does not wait for anything goes on from the microtask
\* queue, before any other event is handled and before the dispatching
\* message handler goes on behind `await this.executor.execute(...)`
Emit(s, t, e) ==
  LET s1 == Observe(s, t, e)
  IN  IF e = "session" THEN OnTaskSession(s1, t)
      ELSE IF ~Reporting
      THEN (IF e \in TerminalEvents THEN OnTaskTerminal(s1, t) ELSE s1)
      ELSE IF e \in TerminalEvents THEN OnTaskEnd(s1, t, EventName(e))
      ELSE IF e = "queued" THEN OnTaskQueued(s1, t)
      ELSE IF e = "started" THEN OnTaskStarted(s1, t)
      ELSE IF e = "progress" THEN OnTaskProgress(s1, t)
      ELSE s1

\* ---- the watchdog and the child process ----------------------------------

\* markTaskActivity: re-arm the single idle timer of the task
markTaskActivity(s, t) ==
  IF s.finalized[t] \/ timeoutMs <= 0
  THEN s
  ELSE [s EXCEPT !.timer[t] = timeoutMs]

\* ChildProcess.kill(sig): the signal is delivered, and `killed` set, only while
\* the process exists; on a process that has exited kill() returns false.
kill(s, t, sig) ==
  IF s.proc[t] = "alive"
  THEN [s EXCEPT !.killed[t] = TRUE, !.signals[t] = @ \cup {sig}]
  ELSE s

CancelledEvent(reason) ==
  IF reason = "user_request" THEN "cancelled:user_request"
  ELSE "cancelled:timeout_no_progress"

\* cancelTask that drops the reason it is given
cancelTask_DefaultReason(s, t, reason) ==
  IF t \notin s.runningTasks
  THEN s
  ELSE LET s1 == [s EXCEPT !.status[t] = "cancelled", !.taskError[t] = "user_request"]
           s2 == Emit(s1, t, CancelledEvent("user_request"))
           s3 == kill(s2, t, "SIGTERM")
       IN  [s3 EXCEPT !.grace[t] = TRUE]

\* cancelTask(taskId, reason)
cancelTask(s, t, reason) ==
  IF t \notin s.runningTasks
  THEN s
  ELSE LET s1 == [s EXCEPT !.status[t] = "cancelled", !.taskError[t] = reason]
           s2 == Emit(s1, t, CancelledEvent(reason))
           s3 == kill(s2, t, "SIGTERM")
       IN  [s3 EXCEPT !.grace[t] = TRUE]

\* ---- starting tasks -------------------------------------------------------

\* shouldInheritModelFromSession
ShouldInherit(s, t) == s.sessionId[t] # NoSession /\ ~s.hasModel[t]

\* startTask awaits resolveModel() unless the task carries a model or inherits
\* the model of the session it continues
NeedsAwait(s, t) == ~ShouldInherit(s, t) /\ ~s.hasModel[t]

\* startTask behind the emit of task:started: spawn() throws, or the child
\* is registered as running; s1 is the state the listeners of task:started left
spawnChild(s1, t, outcome) ==
  IF outcome = "throw"
  THEN Emit([s1 EXCEPT !.status[t] = "failed",
                       !.taskError[t] = "spawn",
                       !.duration[t] = "createdAt",
                       !.runningCount = Max(0, @ - 1)], t, "error")
  ELSE markTaskActivity(
         [s1 EXCEPT !.runningTasks = @ \cup {t},
                    !.finalized[t] = FALSE,
                    !.timer[t] = -1,
                    !.stdoutBuffer[t] = "",
                    !.lastSig[t] = "",
                    !.proc[t] = outcome], t)

\* startTask from `taskInfo.status = 'running'` on; outcome is what spawn() does
startTaskBody(s, t, outcome) ==
  spawnChild(Emit([s EXCEPT !.hasModel[t] = ~ShouldInherit(s, t),
                            !.status[t] = "running",
                            !.runningCount = @ + 1,
                            !.startOrder = Append(@, t)], t, "started"), t, outcome)

\* startTask: runs to its end, or suspends at the await
startTask(s, t, outcome) ==
  IF NeedsAwait(s, t)
  THEN [s EXCEPT !.awaiting = Append(@, t)]
  ELSE startTaskBody(s, t, outcome)

\* execute(params): model says whether params.model is given, sid is
\* params.opencodeSessionId
execute(s, model, sid, outcome) ==
  LET t == s.nextId
      s1 == [s EXCEPT !.nextId = @ + 1,
                      !.status[t] = "pending",
                      !.hasModel[t] = model,
                      !.sessionId[t] = sid]
  IN  IF s.runningCount >= maxConcurrent
      THEN Emit([s1 EXCEPT !.taskQueue = Append(@, t),
                           !.wasQueued[t] = TRUE], t, "queued")
      ELSE startTask(s1, t, outcome)

\* the startTask that execute() left suspended at `await this.resolveModel()`
\* goes on
resumeAwaiting(s1, outcome) ==
  IF s1.awaiting # <<>>
  THEN startTaskBody([s1 EXCEPT !.awaiting = Tail(@)], Head(s1.awaiting), outcome)
  ELSE s1

\* `await this.executor.execute(...)` from a message handler: resolveModel()
\* works synchronously, so the suspended startTask resumes before any other
\* event is handled
awaitExecute(s, model, sid, outcome) ==
  resumeAwaiting(execute(s, model, sid, outcome), outcome)

\* processQueue: start the head of the queue if a slot is free
processQueue(s, outcome) ==
  IF Len(s.taskQueue) = 0 \/ s.runningCount >= maxConcurrent
  THEN s
  ELSE startTask([s EXCEPT !.taskQueue = Tail(@)], Head(s.taskQueue), outcome)

\* cleanupTask that forgets the counter
cleanupTask_KeepCount(s, t) ==
  [s EXCEPT !.runningTasks = @ \ {t}]

\* cleanupTask
cleanupTask(s, t) ==
  [s EXCEPT !.runningTasks = @ \ {t}, !.runningCount = Max(0, @ - 1)]

\* finalizeTask(runningTask, {status, error})
finalizeTask(s, t, st, err, outcome) ==
  IF s.finalized[t]
  THEN s
  ELSE LET s1 == [s EXCEPT !.finalized[t] = TRUE, !.timer[t] = -1,
                           !.duration[t] = "startTime"]
           s2 == CASE st = "completed" ->
                        Emit([s1 EXCEPT !.status[t] = "completed"], t, "completed")
                   [] st = "failed" ->
                        Emit([s1 EXCEPT !.status[t] = "failed",
                                        !.taskError[t] = err], t, "error")
                   [] OTHER -> [s1 EXCEPT !.status[t] = "cancelled"]
       IN  processQueue(cleanupTask(s2, t), outcome)

\* ---- output of the child process -------------------------------------------

\* handleTaskOutput: a fragment that is not empty is pushed to the task's output
handleTaskOutput(s, t, data) ==
  IF data = "" THEN s ELSE [s EXCEPT !.output[t] = @ \cup {data}]

\* the stdout lines of tool_use events of one tool whose title the agent
\* writes in three ways: plain, capitalised, with two spaces in it
ToolUses == {"use read", "use Read", "use  read"}

\* the status handleStructuredProgressEvent makes of a tool_use event: the
\* label of the tool is taken as the agent wrote it
ToolStatus(parsed) ==
  IF parsed = "use read" THEN "call read"
  ELSE IF parsed = "use Read" THEN "call Read"
  ELSE "call  read"

\* progress.replace(/\s+/g, ' ').trim() on the statuses of the model
NormalizeSpace(progress) == IF progress = "call  read" THEN "call read" ELSE progress

\* toLowerCase() on the statuses of the model
ToLowerCase(text) == IF text = "call Read" THEN "call read" ELSE text

\* the event carries the status; repeated records that it is, but for
\* whitespace and case, the status of the event before it
carryProgress(s, t, normalized) ==
  [s EXCEPT !.lastSig[t] = ToLowerCase(normalized),
            !.progressText[t] = normalized,
            !.repeated[t] = @ \/ (s.progressText[t] # ""
                                    /\ ToLowerCase(s.progressText[t]) = ToLowerCase(normalized))]

\* emitProgress that compares the statuses as they are written
emitProgress_CaseSensitive(s, t, progress) ==
  IF NormalizeSpace(progress) = ""
       \/ NormalizeSpace(progress) = s.progressText[t]
  THEN s
  ELSE Emit(carryProgress(s, t, NormalizeSpace(progress)), t, "progress")

\* emitProgress: suppress a status equal to the last one emitted
emitProgress(s, t, progress) ==
  IF NormalizeSpace(progress) = "" THEN s
  ELSE IF ToLowerCase(NormalizeSpace(progress)) = s.lastSig[t]
  THEN [s EXCEPT !.suppressed[t] = TRUE]
  ELSE Emit(carryProgress(s, t, NormalizeSpace(progress)), t, "progress")

\* handleStructuredProgressEvent for a parsed line: a status is emitted for the
\* types step_start, step_finish and tool_use only, here "step"
handleStructuredProgressEvent(s, t, parsed) ==
  IF ~progressStatusOnly THEN s
  ELSE IF parsed = "step" THEN emitProgress(s, t, "step")
  ELSE IF parsed \in ToolUses THEN emitProgress(s, t, ToolStatus(parsed))
  ELSE s

\* extractSessionId of a parsed line
extractSessionId(parsed) ==
  IF parsed = "session" THEN "S1"
  ELSE IF parsed = "session2" THEN "S2"
  ELSE NoSession

\* extractTextPart of a parsed line
extractTextPart(parsed) == IF parsed = "text" THEN "hello" ELSE ""

\* handleStdoutLine: a session id that differs from the task's is stored and
\* task:session is emitted
adoptSessionId(s1, t, sid) ==
  IF sid # NoSession /\ s1.sessionId[t] # sid
  THEN Emit([s1 EXCEPT !.sessionId[t] = sid], t, "session")
  ELSE s1

\* handleStdoutLine that emits task:session for every line carrying an id
handleStdoutLine_EveryLine(s, t, line) ==
  IF line = "" THEN s
  ELSE IF line = "raw" THEN handleTaskOutput(s, t, "raw")
  ELSE LET s1 == handleStructuredProgressEvent(s, t, line)
           sid == extractSessionId(line)
           s2 == IF sid # NoSession
                 THEN Emit([s1 EXCEPT !.sessionId[t] = sid], t, "session")
                 ELSE s1
       IN  handleTaskOutput(s2, t, extractTextPart(line))

\* JSON.parse succeeds on a line that is no object, too: the lines 42 and
\* null, here "number" and "null"; "unknown" is an object whose type is none
\* of text, step_start, step_finish, tool_use, and that holds no sessionID
OddLines == {"unknown", "number", "null"}

\* handleStdoutLine.  A line is one of: "" (blank), "raw" (not JSON),
\* "session" (a JSON object with sessionID "S1"), "step" (a JSON step_start
\* event), "text" (the JSON event {"type":"text","part":{"text":"hello"}}),
\* a tool_use event or one of OddLines.  Reading parsed.type (in status-only
\* mode) or parsed.sessionID of the value null throws a TypeError
handleStdoutLine(s, t, line) ==
  IF line = "" THEN s
  ELSE IF line = "raw" THEN handleTaskOutput(s, t, "raw")
  ELSE IF line = "null" THEN [s EXCEPT !.threw[t] = TRUE]
  ELSE handleTaskOutput(
         adoptSessionId(handleStructuredProgressEvent(s, t, line), t,
                        extractSessionId(line)),
         t, extractTextPart(line))

\* what the buffer holds after text is appended to it: two fragments glued
\* together are no JSON object
Join(b, text) == IF b = "" THEN text ELSE IF text = "" THEN b ELSE "raw"

\* handleTaskStdout for a chunk [text, nl]: text, then possibly a newline
handleTaskStdout(s, t, chunk) ==
  IF chunk.text = "" /\ ~chunk.nl
  THEN s
  ELSE LET s1 == markTaskActivity(s, t)
           line == Join(s1.stdoutBuffer[t], chunk.text)
       IN  IF chunk.nl
           THEN handleStdoutLine([s1 EXCEPT !.stdoutBuffer[t] = ""], t, line)
           ELSE [s1 EXCEPT !.stdoutBuffer[t] = line]

\* flushStdoutBuffer
flushStdoutBuffer(s, t) ==
  IF s.stdoutBuffer[t] = "null"
  THEN handleStdoutLine(s, t, s.stdoutBuffer[t])
  ELSE [handleStdoutLine(s, t, s.stdoutBuffer[t]) EXCEPT !.stdoutBuffer[t] = ""]

\* handleTaskStderr that does not count stderr as activity
handleTaskStderr_NoActivity(s, t) ==
  LET s1 == handleTaskOutput(s, t, "stderr")
  IN  IF progressStatusOnly THEN emitProgress(s1, t, "stderr") ELSE s1

\* handleTaskStderr
handleTaskStderr(s, t) ==
  LET s1 == handleTaskOutput(markTaskActivity(s, t), t, "stderr")
  IN  IF progressStatusOnly THEN emitProgress(s1, t, "stderr") ELSE s1

\* a chunk is never empty
Chunks == {c \in [text : LineKinds \cup {""}, nl : BOOLEAN] : c.text # "" \/ c.nl}

\* chunks that are one line of plain text
RawLines == {c \in Chunks : c.text = "raw" /\ c.nl}

\* chunks that are one event line carrying a session id
SessionLines == {c \in Chunks : c.text \in {"session", "session2"} /\ c.nl}

\* ---- the message handler --------------------------------------------------

\* A message text is a sequence of tokens: "ws" is white space, "at" an
\* <at ...>...</at> tag, "@bot" one of the textual markers @opencode, @bot,
\* @机器人, "key" the key of a mention (@_user_1), "fix" a word of the task
\* keywords, "hi" a greeting, "oc" the prefix word opencode / oc, "!" the
\* character !, and "/new", "/model", "help" these words. Tokens that follow
\* each other without "ws" are glued into one word.
MsgTokens == {"ws", "at", "@bot", "key", "fix", "hi", "oc", "!", "/new", "/model", "help"}

Texts == UNION {[1..n -> MsgTokens] : n \in 0..MaxTextLen}

ChatTypes == {"p2p", "group"}

\* message.mentions, by their keys
MentionSets == {{}, {"key"}}

\* no message handled yet
NoMessage == [chatType |-> "none", content |-> <<>>, mentions |-> {}]

\* handleMessage returned null
NullResponse == [kind |-> "null", command |-> <<>>, intentHint |-> "none"]

\* String.prototype.trim
RECURSIVE TrimStart(_)
TrimStart(text) ==
  IF text # <<>> /\ Head(text) = "ws" THEN TrimStart(Tail(text)) ELSE text

RECURSIVE TrimEnd(_)
TrimEnd(text) ==
  IF text # <<>> /\ text[Len(text)] = "ws"
  THEN TrimEnd(SubSeq(text, 1, Len(text) - 1)) ELSE text

TrimText(text) == TrimEnd(TrimStart(text))

\* text.replace(/\s+/g, ' ')
RECURSIVE CollapseSpaces(_)
CollapseSpaces(text) ==
  IF Len(text) < 2 THEN text
  ELSE IF text[1] = "ws" /\ text[2] = "ws" THEN CollapseSpaces(Tail(text))
  ELSE <<Head(text)>> \o CollapseSpaces(Tail(text))

\* extractCommand without the mention policy
extractCommand_NoPolicy(content, mentions, chatType, policy) ==
  LET text == TrimText(content)
      stripped == TrimText(CollapseSpaces(
                    [i \in 1..Len(text) |->
                       IF text[i] \in {"at", "@bot"} \/ text[i] \in mentions
                       THEN "ws" ELSE text[i]]))
  IN  IF stripped = <<>> THEN <<>>
      ELSE IF Head(stripped) = "!" THEN stripped
      ELSE IF Len(stripped) >= 3 /\ stripped[1] = "oc" /\ stripped[2] = "ws"
           THEN <<"!">> \o SubSeq(stripped, 3, Len(stripped))
      ELSE stripped

\* extractCommand(content, mentions, chatType): the command, or <<>> for null;
\* policy is config.security.requireMention
extractCommand(content, mentions, chatType, policy) ==
  LET text == TrimText(content)
      hasMention == \/ mentions # {}
                    \/ \E i \in 1..Len(text) : text[i] \in {"at", "@bot"}
      stripped == TrimText(CollapseSpaces(
                    [i \in 1..Len(text) |->
                       IF text[i] \in {"at", "@bot"} \/ text[i] \in mentions
                       THEN "ws" ELSE text[i]]))
  IN  IF text = <<>> THEN <<>>
      ELSE IF chatType = "group" /\ policy /\ ~hasMention THEN <<>>
      ELSE IF stripped = <<>> THEN <<>>
      ELSE IF Head(stripped) = "!" THEN stripped
      ELSE IF Len(stripped) >= 3 /\ stripped[1] = "oc" /\ stripped[2] = "ws"
           THEN <<"!">> \o SubSeq(stripped, 3, Len(stripped))
      ELSE stripped

\* looksLikeTask(text): a path-like word or a task keyword
looksLikeTask(text) ==
  \E i \in 1..Len(text) : text[i] \in {"fix", "/new", "/model"}

\* looksLikeChat(text): a greeting, in a text without a task word
looksLikeChat(text) ==
  /\ \E i \in 1..Len(text) : text[i] = "hi"
  /\ \A i \in 1..Len(text) : text[i] # "fix"

\* inferIntentHint(command)
inferIntentHint(command) ==
  LET text == TrimText(command)
  IN  IF text = <<>> THEN "ambiguous"
      ELSE IF looksLikeTask(text) THEN "task"
      ELSE IF looksLikeChat(text) THEN "chat"
      ELSE "ambiguous"

\* handleMessage(event) for a text message of a known sender and chat: the
\* kind of the response, the command to execute and its intent hint
handleMessage(content, mentions, chatType, policy) ==
  LET extracted == extractCommand(content, mentions, chatType, policy)
      rest == IF Len(extracted) >= 2 /\ extracted[2] = "ws"
              THEN TrimText(SubSeq(extracted, 3, Len(extracted))) ELSE <<>>
      executeCommand == IF Head(extracted) = "!" THEN TrimText(Tail(extracted))
                        ELSE TrimText(extracted)
  IN  IF extracted = <<>> THEN NullResponse
      ELSE IF extracted = <<"!", "help">>
           THEN [kind |-> "builtin", command |-> <<>>, intentHint |-> "none"]
      ELSE IF extracted = <<"/new">>
           THEN [kind |-> "reset", command |-> <<>>, intentHint |-> "none"]
      ELSE IF extracted[1] = "/new" /\ rest # <<>>
           THEN [kind |-> "reset", command |-> rest,
                 intentHint |-> inferIntentHint(rest)]
      ELSE IF extracted = <<"/model">> \/ (extracted[1] = "/model" /\ rest # <<>>)
           THEN [kind |-> "model", command |-> rest, intentHint |-> "none"]
      ELSE IF executeCommand = <<>>
           THEN [kind |-> "prompt", command |-> <<>>, intentHint |-> "none"]
      ELSE [kind |-> "execute", command |-> executeCommand,
            intentHint |-> inferIntentHint(executeCommand)]

\* ---- the bridge ------------------------------------------------------------

\* String.prototype.trim on the texts of the model
Trim(text) == IF text = " " THEN "" ELSE text

\* sendBotResponse that does not catch a failed card send
sendBotResponse_NoCatch(response, ok) ==
  LET card == [msgType |-> "interactive", content |-> "card"]
      body == IF response.card THEN response.followupText
              ELSE IF Trim(response.text) # "" THEN response.text
              ELSE response.followupText
      text == [msgType |-> "text", content |-> body]
      triedCard == IF response.card THEN <<card>> ELSE <<>>
  IN  IF response.card /\ ~ok.interactive
      THEN [tried |-> <<card>>, sent |-> <<>>, threw |-> TRUE]
      ELSE IF Trim(body) = ""
      THEN [tried |-> triedCard, sent |-> triedCard, threw |-> FALSE]
      ELSE IF ok.text
           THEN [tried |-> Append(triedCard, text), sent |-> Append(triedCard, text),
                 threw |-> FALSE]
           ELSE [tried |-> Append(triedCard, text), sent |-> triedCard, threw |-> TRUE]

\* sendBotResponse(chatId, response): ok says, per message type, whether
\* bot.sendMessage resolves; the result is the calls of bot.sendMessage, what
\* reached the chat and whether the call threw
sendBotResponse(response, ok) ==
  LET card == [msgType |-> "interactive", content |-> "card"]
      cardSent == response.card /\ ok.interactive
      triedCard == IF response.card THEN <<card>> ELSE <<>>
      sentCard == IF cardSent THEN <<card>> ELSE <<>>
      body == IF cardSent THEN response.followupText
              ELSE IF Trim(response.text) # "" THEN response.text
              ELSE response.followupText
      text == [msgType |-> "text", content |-> body]
  IN  IF Trim(body) = ""
      THEN [tried |-> triedCard, sent |-> sentCard, threw |-> FALSE]
      ELSE IF ok.text
           THEN [tried |-> Append(triedCard, text), sent |-> Append(sentCard, text),
                 threw |-> FALSE]
           ELSE [tried |-> Append(triedCard, text), sent |-> sentCard, threw |-> TRUE]

\* resetBridgeSession(sessionId): the conversation id and the list of pending
\* files of the session are deleted
resetBridgeSession(s, b) ==
  [s EXCEPT !.opencodeSession[b] = NoSession, !.cleared[b] = TRUE,
            !.staged.pending[b] = <<>>]

\* resolvePreferredModelForSession(sessionId)
resolvePreferredModelForSession(s, b) ==
  IF s.sessionModel[b] # NoModel THEN s.sessionModel[b] ELSE s.lastKnownModel[b]

\* handleModelCommand, action 'reset'
handleModelCommandReset(s, b) ==
  [s EXCEPT !.sessionModel[b] = NoModel,
            !.lastKnownModel[b] = NoModel,
            !.opencodeSession[b] = NoSession,
            !.cleared[b] = TRUE,
            !.modelReset[b] = TRUE]

\* handleModelCommand, `/model <id>` with an id that listModels() knows
handleModelCommandSet(s, b, model) ==
  [s EXCEPT !.sessionModel[b] = model,
            !.lastKnownModel[b] = model,
            !.opencodeSession[b] = NoSession,
            !.cleared[b] = TRUE,
            !.modelReset[b] = FALSE]

\* handleIncomingMessage behind `await this.executor.execute(...)`: the maps
\* of the bridge and the history of the session get the task
recordDispatch(s1, t, b, mode, files) ==
  addTaskToSession(
    [s1 EXCEPT !.taskBridgeSession[t] = b,
               !.origin[t] = b,
               !.responseMode[t] = mode,
               !.opencodeSession[b] =
                  IF s1.sessionId[t] # NoSession THEN s1.sessionId[t] ELSE @,
               !.taskAttachedFiles[t] = @ \/ files], b, t)

\* handleIncomingMessage from `if (response.executeCommand)` on, with no
\* pending file
dispatchTaskWith(s, b, mode, files, outcome) ==
  LET t == s.nextId
      modelOverride == resolvePreferredModelForSession(s, b)
      opencodeSessionId == s.opencodeSession[b]
  IN  recordDispatch(awaitExecute([s EXCEPT !.taskModel[t] = modelOverride,
                                             !.infoMode[t] = mode,
                                             !.cleared[b] = FALSE],
                                   modelOverride # NoModel, opencodeSessionId, outcome),
                     t, b, mode, files)

\* the same for a task command in a session without pending files and with
\* the default notify mode
dispatchTask(s, b, outcome) ==
  dispatchTaskWith(s, b, DEFAULT_NOTIFY_MODE, FALSE, outcome)

\* ---- intent routing -------------------------------------------------------

\* config.opencode.intentRoutingConfidence, in hundredths
IntentRoutingConfidence == 75

NoResult == [label |-> "none", confidence |-> 0, raw |-> "none"]

\* the result classifyIntent falls back to
FailSoft(raw) == [label |-> "task", confidence |-> 0, raw |-> raw]

\* no classifyIntent call in progress
IdleClassifier ==
  [child |-> "none", timer |-> FALSE, killTimer |-> FALSE, settled |-> FALSE,
   stdout |-> <<>>, resolveCalls |-> 0, result |-> NoResult, seen |-> {},
   session |-> NoBridge]

\* what the classifier process may write: an answer chat or task with its
\* confidence, or something that is no answer
ClassifierOutputs == {"chat90", "chat60", "task90", "garbage"}

\* parseIntentClassification(extractTextFromJsonEvents(stdout)): one chunk that
\* is an answer is parsed as JSON; several chunks are no JSON and are searched
\* for the words chat and task; NoResult stands for null
parseIntentClassification(stdout) ==
  LET has(w) == \E i \in 1..Len(stdout) : stdout[i] \in w
  IN  IF stdout = <<>> THEN NoResult
      ELSE IF Len(stdout) = 1
      THEN CASE stdout[1] = "chat90" -> [label |-> "chat", confidence |-> 90, raw |-> "parsed"]
             [] stdout[1] = "chat60" -> [label |-> "chat", confidence |-> 60, raw |-> "parsed"]
             [] stdout[1] = "task90" -> [label |-> "task", confidence |-> 90, raw |-> "parsed"]
             [] OTHER -> NoResult
      ELSE IF has({"chat90", "chat60"}) /\ ~has({"task90"})
           THEN [label |-> "chat", confidence |-> 60, raw |-> "parsed"]
      ELSE IF has({"task90"})
           THEN [label |-> "task", confidence |-> 60, raw |-> "parsed"]
      ELSE NoResult

\* finalize(result) of classifyIntent: resolve is called unless settled
finalize(c, result) ==
  IF c.settled THEN c
  ELSE [c EXCEPT !.settled = TRUE,
                 !.timer = FALSE,
                 !.resolveCalls = Min(2, @ + 1),
                 !.result = result]

\* classifyIntent up to the return of the promise executor
classifyIntentStart(b, outcome) ==
  LET c == [IdleClassifier EXCEPT !.session = b]
  IN  IF outcome = "throw"
      THEN finalize([c EXCEPT !.seen = @ \cup {"spawn"}], FailSoft("spawn"))
      ELSE [c EXCEPT !.child = "alive", !.timer = TRUE]

\* the timeout callback of classifyIntent
classifyTimeout(c) ==
  finalize([c EXCEPT !.timer = FALSE, !.killTimer = TRUE,
                     !.seen = @ \cup {"timeout"}], FailSoft("timeout"))

\* child.on('error') of classifyIntent
classifyError(c) ==
  LET c1 == [c EXCEPT !.seen = @ \cup {"error"}]
  IN  IF c.settled THEN c1 ELSE finalize(c1, FailSoft("error"))

\* child.on('close') that resolves whether settled or not
classifyClose_Unguarded(c) ==
  LET parsed == parseIntentClassification(c.stdout)
  IN  [c EXCEPT !.child = "closed",
                !.seen = @ \cup {"close"},
                !.settled = TRUE,
                !.timer = FALSE,
                !.resolveCalls = Min(2, @ + 1),
                !.result = IF parsed # NoResult THEN parsed ELSE FailSoft("unparsed")]

\* child.on('close') of classifyIntent
classifyClose(c) ==
  LET c1 == [c EXCEPT !.child = "closed", !.seen = @ \cup {"close"}]
      parsed == parseIntentClassification(c.stdout)
  IN  IF c.settled THEN c1
      ELSE IF parsed # NoResult THEN finalize(c1, parsed)
      ELSE finalize(c1, FailSoft("unparsed"))

\* resolveResponseMode after `await this.executor.classifyIntent(...)`
routedMode(routing, defaultMode) ==
  IF routing.label = "chat" /\ routing.confidence >= IntentRoutingConfidence
  THEN "silent"
  ELSE defaultMode

\* sendBotResponse was not called yet
NoSend ==
  [calls |-> 0,
   response |-> [card |-> FALSE, text |-> "", followupText |-> ""],
   ok |-> [interactive |-> TRUE, text |-> TRUE],
   tried |-> <<>>, sent |-> <<>>, threw |-> FALSE]

\* the record of a call of sendBotResponse
SendRecord(response, ok) ==
  LET r == sendBotResponse(response, ok)
  IN  [calls |-> 1, response |-> response, ok |-> ok,
       tried |-> r.tried, sent |-> r.sent, threw |-> r.threw]

\* ---- initial state ---------------------------------------------------------

\* no completion card was built yet
NoCompletion == [built |-> FALSE, output |-> <<>>, detail |-> <<>>, followup |-> <<>>]

\* no event was delivered yet
NoInbound == [event |-> <<>>, replied |-> FALSE, executed |-> FALSE, staged |-> FALSE]

\* a process that will write the bytes of `text` to its stdout:
\* runningTask.stdoutBuffer is empty, no line was handled, nothing is written
NewFeed(text) ==
  [stream |-> text, written |-> 0, stdoutBuffer |-> <<>>, lines |-> <<>>,
   midChar |-> FALSE, closed |-> FALSE]

InitExecutor(lim, timeouts, flags) ==
  /\ limit = lim
  /\ timeoutMs \in timeouts
  /\ progressStatusOnly \in flags
  /\ nextId = 1
  /\ status = [t \in Tasks |-> "none"]
  /\ taskError = [t \in Tasks |-> ""]
  /\ hasModel = [t \in Tasks |-> FALSE]
  /\ sessionId = [t \in Tasks |-> NoSession]
  /\ output = [t \in Tasks |-> {}]
  /\ duration = [t \in Tasks |-> "unset"]
  /\ runningTasks = {}
  /\ taskQueue = <<>>
  /\ runningCount = 0
  /\ awaiting = <<>>
  /\ finalized = [t \in Tasks |-> FALSE]
  /\ timer = [t \in Tasks |-> -1]
  /\ stdoutBuffer = [t \in Tasks |-> ""]
  /\ lastSig = [t \in Tasks |-> ""]
  /\ grace = [t \in Tasks |-> FALSE]
  /\ proc = [t \in Tasks |-> "none"]
  /\ killed = [t \in Tasks |-> FALSE]
  /\ signals = [t \in Tasks |-> {}]
  /\ errFired = [t \in Tasks |-> FALSE]
  /\ lastEvent = [t \in Tasks |-> ""]
  /\ wasQueued = [t \in Tasks |-> FALSE]
  /\ terminals = [t \in Tasks |-> 0]
  /\ late = [t \in Tasks |-> FALSE]
  /\ heldAtTerminal = [t \in Tasks |-> FALSE]
  /\ cancelRequested = [t \in Tasks |-> FALSE]
  /\ startOrder = <<>>
  /\ sinceChunk = [t \in Tasks |-> 0]
  /\ sinceSpawn = [t \in Tasks |-> 0]
  /\ sessionModel = [b \in Sessions |-> NoModel]
  /\ lastKnownModel = [b \in Sessions |-> NoModel]
  /\ opencodeSession = [b \in Sessions |-> NoSession]
  /\ taskBridgeSession = [t \in Tasks |-> NoBridge]
  /\ taskModel = [t \in Tasks |-> NoModel]
  /\ origin = [t \in Tasks |-> NoBridge]
  /\ reported = [b \in Sessions |-> NoSession]
  /\ taskHistory = [b \in Sessions |-> <<>>]
  /\ taskSessionIndex = [t \in Tasks |-> NoBridge]
  /\ addOrder = [b \in Sessions |-> <<>>]
  /\ responseMode = [t \in Tasks |-> "none"]
  /\ infoMode = [t \in Tasks |-> "none"]
  /\ pendingProgress = [t \in Tasks |-> NoProgress]
  /\ lastUpdateTime = [t \in Tasks |-> -1]
  /\ taskAttachedFiles = [t \in Tasks |-> FALSE]
  /\ inflight = {}
  /\ lastSent = [t \in Tasks |-> ""]
  /\ sinceMsg = [t \in Tasks |-> -1]
  /\ early = [t \in Tasks |-> FALSE]
  /\ owed = [t \in Tasks |-> {}]
  /\ unhandled = [t \in Tasks |-> FALSE]
  /\ handled = [t \in Tasks |-> FALSE]
  /\ progressText = [t \in Tasks |-> ""]
  /\ repeated = [t \in Tasks |-> FALSE]
  /\ suppressed = [t \in Tasks |-> FALSE]
  /\ threw = [t \in Tasks |-> FALSE]
  /\ \E text \in (IF "streams" \in DOMAIN lim THEN lim.streams ELSE {<<>>}) :
       stdoutFeed = NewFeed(text)
  /\ cleared = [b \in Sessions |-> FALSE]
  /\ modelReset = [b \in Sessions |-> FALSE]
  /\ staged = [pending |-> [b \in Sessions |-> <<>>], given |-> [t \in Tasks |-> {}],
               count |-> 0]
  /\ inbound = NoInbound
  /\ completion = NoCompletion

InitFront(routing, cards) ==
  /\ intentRoutingEnabled \in routing
  /\ resultCardEnabled \in cards
  /\ classifier = IdleClassifier
  /\ answered = [t \in Tasks |-> FALSE]
  /\ sendLog = NoSend
  /\ sessionNotifyMode = [b \in Sessions |-> "none"]
  /\ pendingFiles = [b \in Sessions |-> FALSE]
  /\ routingDefault = "none"

InitWith(lim, timeouts, flags) ==
  /\ InitExecutor(lim, timeouts, flags)
  /\ requireMention = TRUE
  /\ message = NoMessage
  /\ botResponse = NullResponse
  /\ InitFront({TRUE}, {TRUE})

\* tasks that write lines of plain text, under the watchdog
Init == InitWith([tasks |-> MaxTasks, chunks |-> RawLines], {IdleWindow}, {TRUE})

\* more tasks, with the watchdog disabled by the configuration
InitQueue == InitWith([tasks |-> QueueTasks, chunks |-> {}], {0}, {TRUE})

\* ---- actions ---------------------------------------------------------------

\* no exception has left an event listener: nothing catches it (there is no
\* 'uncaughtException' handler), so it ends the Node process
Up == \A t \in Tasks : ~threw[t]

\* timers and process events are delivered only when no startTask is suspended
LoopIdle == awaiting = <<>> /\ Up

Live(t) == proc[t] \in {"alive", "exited"}

\* execute(params): params.model given or not, params.opencodeSessionId
Execute(model, sid, outcome) ==
  /\ Up
  /\ nextId <= limit.tasks
  /\ Commit(execute(Cur, model, sid, outcome))

\* the continuation of the oldest suspended startTask
ResumeStartTask(outcome) ==
  /\ awaiting # <<>>
  /\ Commit(startTaskBody([Cur EXCEPT !.awaiting = Tail(@)], Head(awaiting), outcome))

\* cancelTask(taskId) called by the embedder, reason defaulting to user_request
CancelTask(t) ==
  /\ status[t] # "none"
  /\ Commit(cancelTask([Cur EXCEPT !.cancelRequested[t] =
                                     @ \/ status[t] \in {"pending", "running"}],
                        t, "user_request"))

\* the callback of the idle timer set by markTaskActivity
IdleTimerFire(t) ==
  /\ LoopIdle
  /\ timer[t] = 0
  /\ LET s1 == [Cur EXCEPT !.timer[t] = -1]
     IN  IF t \notin runningTasks \/ finalized[t]
         THEN Commit(s1)
         ELSE Commit(cancelTask(s1, t, "timeout_no_progress"))

\* the callback of the 5-second timer set by cancelTask
GraceTimerFire(t) ==
  /\ LoopIdle
  /\ grace[t]
  /\ LET s1 == [Cur EXCEPT !.grace[t] = FALSE]
     IN  IF ~killed[t]
         THEN Commit(kill(s1, t, "SIGKILL"))
         ELSE Commit(s1)

\* child.stdout 'data'
StdoutData(t, chunk) ==
  /\ LoopIdle
  /\ Live(t)
  /\ Commit(handleTaskStdout([Cur EXCEPT !.sinceChunk[t] = 0], t, chunk))

\* child.stderr 'data'
StderrData(t) ==
  /\ LoopIdle
  /\ Live(t)
  /\ Commit(handleTaskStderr([Cur EXCEPT !.sinceChunk[t] = 0], t))

\* child 'error'
ProcError(t, outcome) ==
  /\ LoopIdle
  /\ Live(t)
  /\ ~errFired[t]
  /\ Commit(finalizeTask([Cur EXCEPT !.errFired[t] = TRUE], t, "failed", "process", outcome))

\* the process ends, by itself or on a signal
ProcExit(t) ==
  /\ LoopIdle
  /\ proc[t] = "alive"
  /\ Commit([Cur EXCEPT !.proc[t] = "exited"])

\* child 'close' with the exit code
ProcClose(t, code, outcome) ==
  /\ LoopIdle
  /\ proc[t] = "exited"
  /\ LET s1 == flushStdoutBuffer([Cur EXCEPT !.proc[t] = "closed"], t)
     IN  IF s1.threw[t]
         THEN Commit(s1)
         ELSE IF s1.status[t] = "cancelled"
         THEN Commit(finalizeTask(s1, t, "cancelled", "", outcome))
         ELSE IF code = 0
         THEN Commit(finalizeTask(s1, t, "completed", "", outcome))
         ELSE Commit(finalizeTask(s1, t, "failed", "exit", outcome))

\* one unit of time passes; a timer that is due fires first
Tick ==
  /\ LoopIdle
  /\ \A t \in Tasks : timer[t] # 0
  /\ \E t \in Tasks : Live(t)
  /\ Commit([Cur EXCEPT
       !.timer = [t \in Tasks |-> IF timer[t] > 0 THEN timer[t] - 1 ELSE timer[t]],
       !.sinceChunk = [t \in Tasks |-> Min(IdleWindow, sinceChunk[t] + 1)],
       !.sinceSpawn = [t \in Tasks |-> Min(MaxElapsed, sinceSpawn[t] + 1)]])

Next ==
  \/ \E model \in BOOLEAN, sid \in {NoSession}, outcome \in SpawnOutcomes :
       Execute(model, sid, outcome)
  \/ \E outcome \in SpawnOutcomes : ResumeStartTask(outcome)
  \/ \E t \in Tasks : CancelTask(t)
  \/ \E t \in Tasks : IdleTimerFire(t)
  \/ \E t \in Tasks : GraceTimerFire(t)
  \/ \E t \in Tasks, chunk \in limit.chunks : StdoutData(t, chunk)
  \/ \E t \in Tasks : StderrData(t)
  \/ \E t \in Tasks, outcome \in SpawnOutcomes : ProcError(t, outcome)
  \/ \E t \in Tasks : ProcExit(t)
  \/ \E t \in Tasks, code \in ExitCodes, outcome \in SpawnOutcomes : ProcClose(t, code, outcome)
  \/ Tick

\* the life of a task under the watchdog
Spec == Init /\ [][Next]_vars

\* ---- messages to the bridge -----------------------------------------------

\* what bot.sendMessage does, per message type
SendOutcomes == [interactive : BOOLEAN, text : BOOLEAN]

\* the response of handleMessage to /new without a command
NewSessionResponse == [card |-> FALSE, text |-> "ack", followupText |-> ""]

\* handleIncomingMessage for the text /new: the acknowledgement is sent, then
\* the session is reset; a send that throws ends the handler in its catch
NewCommand(b, ok) ==
  /\ LoopIdle
  /\ LET s1 == [Cur EXCEPT !.reported[b] = NoSession]
     IN  IF sendBotResponse(NewSessionResponse, ok).threw
         THEN Commit(s1)
         ELSE Commit(resetBridgeSession(s1, b))

\* handleIncomingMessage for the text /model reset
ModelResetCommand(b) ==
  /\ LoopIdle
  /\ Commit(handleModelCommandReset([Cur EXCEPT !.reported[b] = NoSession], b))

\* handleIncomingMessage for the text /model <id>
ModelSetCommand(b, model) ==
  /\ LoopIdle
  /\ Commit(handleModelCommandSet([Cur EXCEPT !.reported[b] = NoSession], b, model))

\* handleIncomingMessage for a text that is a command for the agent
Dispatch(b, outcome) ==
  /\ LoopIdle
  /\ nextId <= limit.tasks
  /\ Commit(dispatchTask(Cur, b, outcome))

\* the conversation the agent opens for a task of session b that is invoked
\* without --session: the agent's ids are unique to a conversation
AgentConversation(b) == IF b[1] = "u1" THEN "S1" ELSE "S2"

\* the event line by which the agent reports conversation id
SessionLine(id) == [text |-> IF id = "S1" THEN "session" ELSE "session2", nl |-> TRUE]

\* child.stdout 'data' of a task the bridge dispatched: the agent reports the
\* conversation it was told to continue, or else the one it opened
AgentReport(t) ==
  /\ origin[t] # NoBridge
  /\ StdoutData(t, SessionLine(IF sessionId[t] # NoSession THEN sessionId[t]
                                ELSE AgentConversation(origin[t])))

InitBridge ==
  InitWith([tasks |-> BridgeTasks, chunks |-> SessionLines], {0}, {TRUE})

NextBridge ==
  \/ \E b \in Sessions, ok \in SendOutcomes : NewCommand(b, ok)
  \/ \E b \in Sessions : ModelResetCommand(b)
  \/ \E b \in Sessions, model \in Models : ModelSetCommand(b, model)
  \/ \E b \in Sessions, outcome \in SpawnOutcomes : Dispatch(b, outcome)
  \/ \E t \in Tasks : AgentReport(t)
  \/ \E t \in Tasks : ProcExit(t)
  \/ \E t \in Tasks, code \in ExitCodes, outcome \in SpawnOutcomes : ProcClose(t, code, outcome)

\* the bridge in front of the executor: two sessions, their commands, agents
\* that report their conversation id, no watchdog
BridgeSpec == InitBridge /\ [][NextBridge]_vars

InitWatchdogBridge ==
  InitWith([tasks |-> BridgeTasks, chunks |-> SessionLines], {IdleWindow}, {TRUE})

NextWatchdogBridge ==
  \/ \E b \in Sessions, ok \in SendOutcomes : NewCommand(b, ok)
  \/ \E b \in Sessions, outcome \in SpawnOutcomes : Dispatch(b, outcome)
  \/ \E t \in Tasks : IdleTimerFire(t)
  \/ \E t \in Tasks : AgentReport(t)
  \/ \E t \in Tasks : ProcExit(t)
  \/ \E t \in Tasks, code \in ExitCodes, outcome \in SpawnOutcomes : ProcClose(t, code, outcome)
  \/ Tick

\* the bridge in front of the executor, under the watchdog: tasks and /new
WatchdogBridgeSpec == InitWatchdogBridge /\ [][NextWatchdogBridge]_vars

\* ---- messages to the handler ---------------------------------------------

\* handler.handleMessage(event) for a text message
HandleMessage(chatType, content, mentions) ==
  /\ message' = [chatType |-> chatType, content |-> content, mentions |-> mentions]
  /\ botResponse' = handleMessage(content, mentions, chatType, requireMention)
  /\ UNCHANGED <<coreVars, requireMention, frontVars, modeVars>>

InitHandler ==
  /\ InitExecutor([tasks |-> 0, chunks |-> {}], {0}, {TRUE})
  /\ requireMention \in BOOLEAN
  /\ message = NoMessage
  /\ botResponse = NullResponse
  /\ InitFront({TRUE}, {TRUE})

\* the response depends on nothing that an earlier message left behind, so
\* one message is handled
NextHandler ==
  /\ message = NoMessage
  /\ \E chatType \in ChatTypes, content \in Texts, mentions \in MentionSets :
       HandleMessage(chatType, content, mentions)

\* the message handler alone: text messages under either mention policy
HandlerSpec == InitHandler /\ [][NextHandler]_vars

\* ---- from a message to the answer ----------------------------------------

\* the texts sent in ChatSpec: a task, a greeting, a text that is neither
ChatTexts == {<<"fix">>, <<"hi">>, <<"help">>}

ClassifierIdle ==
  classifier.child # "alive" /\ ~classifier.timer /\ ~classifier.killTimer

\* the rest of handleIncomingMessage once the response mode is known
DispatchWithMode(b, mode, files, outcome) ==
  CommitCore(dispatchTaskWith(Cur, b, mode, files, outcome))

\* the classifier c1 follows c: if the promise of classifyIntent was resolved
\* in between, resolveResponseMode returns, with defaultMode as it read it on
\* entry, and handleIncomingMessage goes on and dispatches the task
AfterClassifier(c, c1, defaultMode, outcome) ==
  /\ classifier' = c1
  /\ IF c.resolveCalls = 0 /\ c1.resolveCalls > 0
     THEN DispatchWithMode(c1.session, routedMode(c1.result, defaultMode), FALSE, outcome)
     ELSE UNCHANGED coreVars

\* getSessionTaskMode(sessionId)
getSessionTaskMode(b) ==
  IF sessionNotifyMode[b] # "none" THEN sessionNotifyMode[b] ELSE DEFAULT_NOTIFY_MODE

\* handleIncomingMessage for a text message in a direct chat that is a command
\* for the agent; spawned is what spawn() does for the classifier.  Pending
\* files of the session are consumed and go with the task, which then takes
\* the mode of the session; otherwise resolveResponseMode decides.
IncomingText(b, content, spawned, outcome) ==
  LET r == handleMessage(content, {}, "p2p", requireMention)
      defaultMode == getSessionTaskMode(b)
  IN  /\ LoopIdle
      /\ ClassifierIdle
      /\ nextId <= limit.tasks
      /\ r.kind = "execute"
      /\ message' = [chatType |-> "p2p", content |-> content, mentions |-> {}]
      /\ botResponse' = r
      /\ pendingFiles' = [pendingFiles EXCEPT ![b] = FALSE]
      /\ routingDefault' = defaultMode
      /\ UNCHANGED <<requireMention, intentRoutingEnabled, resultCardEnabled,
                     answered, sendLog, sessionNotifyMode>>
      /\ IF pendingFiles[b] \/ r.intentHint \in {"task", "chat"} \/ ~intentRoutingEnabled
         THEN /\ DispatchWithMode(b, IF ~pendingFiles[b] /\ r.intentHint = "chat"
                                      THEN "silent" ELSE defaultMode,
                                   pendingFiles[b], outcome)
              /\ UNCHANGED classifier
         ELSE AfterClassifier(IdleClassifier, classifyIntentStart(b, spawned), defaultMode, outcome)

Classifying == classifier.child = "alive"

\* child.stdout 'data' of the classifier
ClassifierStdout(data) ==
  /\ Classifying
  /\ Len(classifier.stdout) < MaxClassifierChunks
  /\ classifier' = [classifier EXCEPT !.stdout = Append(@, data)]
  /\ UNCHANGED <<coreVars, handlerVars, modeVars, intentRoutingEnabled, resultCardEnabled,
                 answered, sendLog>>

\* the timeout of classifyIntent fires
ClassifierTimeout(outcome) ==
  /\ classifier.timer
  /\ AfterClassifier(classifier, classifyTimeout(classifier), routingDefault, outcome)
  /\ UNCHANGED <<handlerVars, modeVars, intentRoutingEnabled, resultCardEnabled, answered, sendLog>>

\* the timer set by the timeout callback fires: SIGKILL unless killed
ClassifierKillTimerFire ==
  /\ classifier.killTimer
  /\ classifier' = [classifier EXCEPT !.killTimer = FALSE]
  /\ UNCHANGED <<coreVars, handlerVars, modeVars, intentRoutingEnabled, resultCardEnabled,
                 answered, sendLog>>

\* child 'error' of the classifier
ClassifierError(outcome) ==
  /\ Classifying
  /\ "error" \notin classifier.seen
  /\ AfterClassifier(classifier, classifyError(classifier), routingDefault, outcome)
  /\ UNCHANGED <<handlerVars, modeVars, intentRoutingEnabled, resultCardEnabled, answered, sendLog>>

\* child 'close' of the classifier
ClassifierClose(outcome) ==
  /\ Classifying
  /\ AfterClassifier(classifier, classifyClose(classifier), routingDefault, outcome)
  /\ UNCHANGED <<handlerVars, modeVars, intentRoutingEnabled, resultCardEnabled, answered, sendLog>>

\* the task:completed handler of the bridge sends the answer
Deliver(t, ok) ==
  /\ status[t] = "completed"
  /\ ~answered[t]
  /\ answered' = [answered EXCEPT ![t] = TRUE]
  /\ sendLog' = SendRecord(handleTaskComplete(Cur, t, responseMode[t]), ok)
  /\ UNCHANGED <<coreVars, handlerVars, modeVars, intentRoutingEnabled, resultCardEnabled,
                 classifier>>

InitChat ==
  /\ InitExecutor([tasks |-> ChatTasks, chunks |-> RawLines], {0}, {TRUE})
  /\ requireMention = TRUE
  /\ message = NoMessage
  /\ botResponse = NullResponse
  /\ InitFront(BOOLEAN, BOOLEAN)

NextChat ==
  \/ \E b \in Sessions, content \in ChatTexts, spawned \in SpawnOutcomes,
        outcome \in SpawnOutcomes : IncomingText(b, content, spawned, outcome)
  \/ \E data \in ClassifierOutputs : ClassifierStdout(data)
  \/ \E outcome \in SpawnOutcomes : ClassifierTimeout(outcome)
  \/ ClassifierKillTimerFire
  \/ \E outcome \in SpawnOutcomes : ClassifierError(outcome)
  \/ \E outcome \in SpawnOutcomes : ClassifierClose(outcome)
  \/ \E t \in Tasks, chunk \in limit.chunks : StdoutData(t, chunk)
  \/ \E t \in Tasks : ProcExit(t)
  \/ \E t \in Tasks, code \in ExitCodes, outcome \in SpawnOutcomes : ProcClose(t, code, outcome)
  \/ \E t \in Tasks, ok \in SendOutcomes : Deliver(t, ok)

\* a text message in a direct chat, the routing of its intent, the task and
\* the answer to the chat
ChatSpec == InitChat /\ [][NextChat]_vars

NextRouting ==
  \/ \E b \in Sessions, content \in ChatTexts, spawned \in SpawnOutcomes,
        outcome \in SpawnOutcomes : IncomingText(b, content, spawned, outcome)
  \/ \E data \in ClassifierOutputs : ClassifierStdout(data)
  \/ \E outcome \in SpawnOutcomes : ClassifierTimeout(outcome)
  \/ ClassifierKillTimerFire
  \/ \E outcome \in SpawnOutcomes : ClassifierError(outcome)
  \/ \E outcome \in SpawnOutcomes : ClassifierClose(outcome)

\* a text message in a direct chat and the routing of its intent, up to the
\* dispatch of the task
RoutingSpec == InitChat /\ [][NextRouting]_vars

\* ---- sendBotResponse alone ------------------------------------------------

\* response.text: absent, blank, or a text
ResponseTexts == {"", " ", "body", "reply"}

\* response.followupText: absent, blank, or the continuation of a long result
FollowupTexts == {"", " ", "more", "rest"}

BotResponses == [card : BOOLEAN, text : ResponseTexts, followupText : FollowupTexts]

\* sendBotResponse(chatId, response)
SendBotResponse(response, ok) ==
  /\ sendLog' = SendRecord(response, ok)
  /\ UNCHANGED <<coreVars, handlerVars, modeVars, intentRoutingEnabled, resultCardEnabled,
                 classifier, answered>>

InitSend ==
  InitWith([tasks |-> 0, chunks |-> {}], {0}, {TRUE})

\* one response is sent
NextSend ==
  /\ sendLog.calls = 0
  /\ \E response \in BotResponses, ok \in SendOutcomes : SendBotResponse(response, ok)

SendSpec == InitSend /\ [][NextSend]_vars

\* the queue: several tasks of silent processes, no watchdog
NextQueue ==
  \/ \E model \in BOOLEAN, sid \in {NoSession}, outcome \in SpawnOutcomes :
       Execute(model, sid, outcome)
  \/ \E outcome \in SpawnOutcomes : ResumeStartTask(outcome)
  \/ \E t \in Tasks : CancelTask(t)
  \/ \E t \in Tasks : GraceTimerFire(t)
  \/ \E t \in Tasks : ProcExit(t)
  \/ \E t \in Tasks, code \in ExitCodes, outcome \in SpawnOutcomes : ProcClose(t, code, outcome)

QueueSpec == InitQueue /\ [][NextQueue]_vars

TypeOK ==
  /\ nextId \in 1..(limit.tasks + 1)
  /\ runningCount \in Nat
  /\ runningTasks \subseteq Tasks
  /\ \A t \in Tasks : timer[t] \in -1..IdleWindow

\* the stdout parser: one task without watchdog whose process writes lines of
\* every kind, whole or in pieces, under both settings of progressStatusOnly
InitParser == InitWith([tasks |-> ParserTasks, chunks |-> Chunks], {0}, BOOLEAN)

NextParser ==
  \/ \E model \in BOOLEAN, sid \in {NoSession}, outcome \in SpawnOutcomes :
       Execute(model, sid, outcome)
  \/ \E outcome \in SpawnOutcomes : ResumeStartTask(outcome)
  \/ \E t \in Tasks, chunk \in limit.chunks : StdoutData(t, chunk)
  \/ \E t \in Tasks : StderrData(t)
  \/ \E t \in Tasks : ProcExit(t)
  \/ \E t \in Tasks, code \in ExitCodes, outcome \in SpawnOutcomes : ProcClose(t, code, outcome)

ParserSpec == InitParser /\ [][NextParser]_vars

\* ---- properties -------------------------------------------------------------

\* the task has left the executor: finalizeTask ran, or spawn failed in startTask
Over(t) == finalized[t] \/ taskError[t] = "spawn"

Started(t) == \E i \in 1..Len(startOrder) : startOrder[i] = t

StartIndex(t) == CHOOSE i \in 1..Len(startOrder) : startOrder[i] = t

InQueue(t) == \E i \in 1..Len(taskQueue) : taskQueue[i] = t

\* nothing is left to happen by itself: no continuation, process or timer pending
Quiescent ==
  /\ awaiting = <<>>
  /\ \A t \in Tasks : ~Live(t) /\ ~grace[t] /\ timer[t] = -1

\* C1: over its whole life a task has exactly one terminal event (completed,
\* error or cancelled): never two, and one once the task is over.
C1_ExactlyOneTerminalEvent ==
  \A t \in Tasks :
    /\ terminals[t] <= 1
    /\ Over(t) => terminals[t] = 1

\* C2: after the terminal event of a task no further event (started, progress,
\* session, queued) is emitted for it.
C2_NoEventAfterTerminal == \A t \in Tasks : ~late[t]

\* C3: with concurrency limit N, never more than N tasks are running (started
\* and not yet finalized), and the running count never exceeds N.
C3_RunningWithinLimit ==
  /\ runningCount <= maxConcurrent
  /\ Cardinality(runningTasks) <= maxConcurrent

\* C4: tasks start in submission order: when A was submitted and queued before
\* B was submitted and B has started, A started before B.
C4_StartedInSubmissionOrder ==
  \A A \in Tasks, B \in Tasks :
    (A < B /\ wasQueued[A] /\ Started(B)) =>
      (Started(A) /\ StartIndex(A) < StartIndex(B))

\* C5: every accepted task reaches a terminal event without a further execute()
\* call: once every process has closed and nothing is pending, no accepted task
\* is left without its terminal event.
C5_EveryTaskReachesTerminal ==
  Quiescent => \A t \in Tasks : status[t] # "none" => terminals[t] >= 1

TimeoutEvent == "cancelled:timeout_no_progress"

\* the idle timer of a running task is due exactly when the task has been silent
\* for the whole window, counted from spawn or from the last chunk
IdleTimerTracksSilence ==
  \A t \in Tasks :
    (t \in runningTasks /\ timeoutMs > 0) =>
      \/ timer[t] = timeoutMs - sinceChunk[t]
      \/ timer[t] = -1 /\ sinceChunk[t] = timeoutMs /\ status[t] = "cancelled"

\* the idle timer firing on a running task cancels it with timeout_no_progress
\* and emits task:cancelled with that reason
IdleTimerCancels ==
  \A t \in Tasks :
    (IdleTimerFire(t) /\ t \in runningTasks) =>
      /\ status'[t] = "cancelled"
      /\ taskError'[t] = "timeout_no_progress"
      /\ lastEvent'[t] = TimeoutEvent
      /\ terminals'[t] >= 1
      /\ "SIGTERM" \in signals'[t] \/ proc[t] # "alive"

\* C6: a running task that delivers no chunk for the idle window, from spawn or
\* from its last chunk, is cancelled through cancelTask with the reason
\* timeout_no_progress and task:cancelled with that reason is emitted, whatever
\* its total elapsed time.
C6_SilentTaskCancelled == [] IdleTimerTracksSilence /\ [][IdleTimerCancels]_vars

\* a task cancelled by the watchdog, silent since spawn, after no more than the window
C6_Witness ==
  \E t \in Tasks :
    /\ t \in runningTasks
    /\ status[t] = "cancelled"
    /\ taskError[t] = "timeout_no_progress"
    /\ lastEvent[t] = TimeoutEvent
    /\ sinceChunk[t] = IdleWindow
    /\ sinceSpawn[t] = IdleWindow

\* C7: a running task that delivers a chunk at intervals shorter than the idle
\* window is never cancelled by the watchdog, however long it runs: the watchdog
\* cancels, and a timeout cancellation appears, only after a silence of the
\* whole window.
C7_ActiveTaskNeverTimedOut ==
  [][\A t \in Tasks :
       (\/ IdleTimerFire(t) /\ t \in runningTasks
        \/ taskError'[t] = "timeout_no_progress" /\ taskError[t] # "timeout_no_progress"
        \/ lastEvent'[t] = TimeoutEvent /\ lastEvent[t] # TimeoutEvent)
       => sinceChunk[t] = IdleWindow]_vars

\* a task still running, not cancelled, after more than the window in total
C7_Witness ==
  \E t \in Tasks :
    /\ t \in runningTasks
    /\ status[t] = "running"
    /\ sinceSpawn[t] > IdleWindow
    /\ timer[t] > 0

\* C8: cancelTask on an accepted task that is running or waiting in the queue
\* marks it cancelled and emits task:cancelled within the call.
C8_CancelAlwaysEmits ==
  [][\A t \in Tasks :
       (/\ t \in runningTasks \/ InQueue(t)
        /\ ~cancelRequested[t]
        /\ cancelRequested'[t])
       => (status'[t] = "cancelled" /\ lastEvent'[t] = "cancelled:user_request")]_vars

\* C9: when the grace timer of cancelTask fires on a process that got SIGTERM
\* and has not exited, SIGKILL is sent to it.
C9_SigkillAfterGrace ==
  [][\A t \in Tasks :
       (GraceTimerFire(t) /\ proc[t] = "alive" /\ "SIGTERM" \in signals[t])
       => "SIGKILL" \in signals'[t]]_vars

\* C10: a task whose spawn failed was never running: no task:started was
\* emitted for it and it never took a slot.
C10_SpawnFailureNeverStarted ==
  \A t \in Tasks : taskError[t] = "spawn" => ~Started(t)

\* cancelTask has marked the task cancelled: only cancelTask sends SIGTERM
MarkedCancelled(t) == "SIGTERM" \in signals[t]

\* the close handler on a task that is not cancelled, with a non-zero code:
\* failed, 'Process exited with code N', task:error
CloseNonZeroFails ==
  \A t \in Tasks, outcome \in SpawnOutcomes :
    (ProcClose(t, 1, outcome) /\ status[t] = "running" /\ ~finalized[t]) =>
      /\ status'[t] = "failed"
      /\ taskError'[t] = "exit"
      /\ lastEvent'[t] = "error"

\* a task marked cancelled whose process has closed is cancelled, and neither
\* task:error nor task:completed was its last event
ClosedCancelledStays ==
  \A t \in Tasks :
    (proc[t] = "closed" /\ MarkedCancelled(t)) =>
      (status[t] = "cancelled" /\ lastEvent[t] \notin {"error", "completed"})

\* C11: a process closing with a non-zero code makes the task failed with
\* 'Process exited with code N' and task:error, unless the task was marked
\* cancelled before: then it is finalized cancelled, without task:error or
\* task:completed, and its status stays cancelled.
C11_CancelledTakesPrecedence == [] ClosedCancelledStays /\ [][CloseNonZeroFails]_vars

\* C12: every terminal event releases the slot of its task: when task:completed,
\* task:error or task:cancelled is emitted the task no longer counts as running,
\* and once a terminal event was emitted the task is not in the running map.
C12_TerminalReleasesSlot ==
  \A t \in Tasks :
    /\ ~heldAtTerminal[t]
    /\ terminals[t] >= 1 => t \notin runningTasks

\* the line {"type":"text","part":{"text":"hello"}}, newline included
TextLine == [text |-> "text", nl |-> TRUE]

\* C13: feeding the stdout parser of a running task the text event with
\* part.text = "hello" as one line emits task:progress carrying "hello" and
\* puts "hello" in the task's output, under both settings of progressStatusOnly.
C13_TextLineGivesProgress ==
  [][\A t \in Tasks :
       (StdoutData(t, TextLine) /\ t \in runningTasks /\ stdoutBuffer[t] = "")
       => /\ lastEvent'[t] = "progress"
          /\ lastSig'[t] = "hello"
          /\ "hello" \in output'[t]]_vars

\* the status of the record agrees with the terminal event, when that is the
\* last event of the task
StatusMatchesEvent(t) ==
  /\ lastEvent[t] = "completed" => status[t] = "completed"
  /\ lastEvent[t] = "error" => status[t] = "failed"
  /\ lastEvent[t] \in {"cancelled:user_request", TimeoutEvent} => status[t] = "cancelled"

\* duration is completedAt - createdAt: computed so, or computed from the start
\* time of a task that did not wait in the queue between creation and start
DurationFromCreation(t) ==
  \/ duration[t] = "createdAt"
  \/ duration[t] = "startTime" /\ ~wasQueued[t]

\* C14: once a task is over and its terminal event was emitted, its record has
\* the status of that event and duration = completedAt - createdAt, on every
\* finalization path and for tasks that waited in the queue.
C14_RecordAfterTerminal ==
  \A t \in Tasks :
    (Over(t) /\ terminals[t] >= 1) =>
      (StatusMatchesEvent(t) /\ DurationFromCreation(t))

\* ---- C15 ---------------------------------------------------------------

\* the stored values of every session but b are left alone
OtherSessionsUnchanged(b) ==
  \A b2 \in Sessions \ {b} :
    /\ opencodeSession'[b2] = opencodeSession[b2]
    /\ sessionModel'[b2] = sessionModel[b2]
    /\ lastKnownModel'[b2] = lastKnownModel[b2]

\* handling /new clears the conversation id of the session and keeps its
\* model preference
NewClearsConversation ==
  \A b \in Sessions, ok \in SendOutcomes :
    NewCommand(b, ok) =>
      /\ opencodeSession'[b] = NoSession
      /\ sessionModel'[b] = sessionModel[b]
      /\ lastKnownModel'[b] = lastKnownModel[b]
      /\ OtherSessionsUnchanged(b)

\* handling /model reset clears the model override, the last-known model and
\* the conversation id of the session
ModelResetClearsAll ==
  \A b \in Sessions :
    ModelResetCommand(b) =>
      /\ opencodeSession'[b] = NoSession
      /\ sessionModel'[b] = NoModel
      /\ lastKnownModel'[b] = NoModel
      /\ OtherSessionsUnchanged(b)

\* C15: handling /new for a session clears its stored agent-conversation id
\* and leaves its model override and last-known model unchanged; handling
\* /model reset clears its model override, last-known model and
\* agent-conversation id; neither changes a stored value of another session.
C15_ResetFrame == [][NewClearsConversation /\ ModelResetClearsAll]_vars

\* ---- C16 ---------------------------------------------------------------

\* a task dispatched in a session whose tasks reported a conversation id
\* since the last reset of the session is invoked with that id
ContinuesConversation ==
  \A b \in Sessions, outcome \in SpawnOutcomes :
    (Dispatch(b, outcome) /\ reported[b] # NoSession) =>
      sessionId'[nextId] = reported[b]

\* a task is invoked with no conversation id of another session
OwnConversationOnly ==
  \A t \in Tasks :
    (origin[t] # NoBridge /\ sessionId[t] # NoSession) =>
      sessionId[t] = AgentConversation(origin[t])

\* C16: if a task of session s reported agent-conversation id S and no /new,
\* /model <id> or /model reset has been handled for s since, the next task
\* dispatched in s is invoked with --session S; a task dispatched in another
\* session is never invoked with S.
C16_ConversationContinuity ==
  [] OwnConversationOnly /\ [][ContinuesConversation]_vars

\* ---- C17 ---------------------------------------------------------------

\* the message carries a mention marker: a mention, an <at> tag or a textual
\* marker
HasMarker(m) ==
  \/ m.mentions # {}
  \/ \E i \in 1..Len(m.content) : m.content[i] \in {"at", "@bot"}

\* the text of the message apart from its markers
TextProper(m) ==
  SelectSeq(m.content, LAMBDA k : k \notin {"at", "@bot"} /\ k \notin m.mentions)

\* the text proper is not empty (white space apart)
HasText(m) == \E i \in 1..Len(TextProper(m)) : TextProper(m)[i] # "ws"

\* the response is an actionable intent
Actionable(r) ==
  /\ r.kind \in {"builtin", "reset", "model", "prompt", "execute"}
  /\ r.kind = "execute" => r.intentHint \in {"task", "chat", "ambiguous"}

\* C17: with the mention-required policy on, a non-empty text message in a
\* group chat that carries no mention marker yields no response
\* (handleMessage returns null); the same text in a direct chat, or in a group
\* chat with a mention marker present, yields an actionable intent.
C17_MentionPolicy ==
  (requireMention /\ HasText(message)) =>
    /\ (message.chatType = "group" /\ ~HasMarker(message)) => botResponse = NullResponse
    /\ (message.chatType = "p2p" /\ ~HasMarker(message)) => Actionable(botResponse)
    /\ (message.chatType = "group" /\ HasMarker(message)) => Actionable(botResponse)

\* a group message with a text and no marker was handled under the policy
C17_Witness ==
  /\ requireMention
  /\ message.chatType = "group"
  /\ HasText(message)
  /\ ~HasMarker(message)
  /\ botResponse = NullResponse

\* ---- C18 ---------------------------------------------------------------

\* the text of the scenario, 'fix the login bug in auth.ts', in a direct chat
ScenarioMessage == [chatType |-> "p2p", content |-> <<"fix">>, mentions |-> {}]

\* every send to the chat platform succeeds
AllSent == [interactive |-> TRUE, text |-> TRUE]

\* the fallback text of a completed task without output
NoOutputFallback == [msgType |-> "text", content |-> "done:no-output"]

\* C18: the text 'fix the login bug in auth.ts' sent in a direct chat gets
\* intent hint task, a task is created and started, and when its process exits
\* with code 0 having produced no output a task:completed event is emitted
\* whose response delivered to the chat is the fallback text with the
\* 'no output' placeholder, and no interactive card.
C18_EndToEnd ==
  \A t \in Tasks :
    (/\ nextId = t + 1
     /\ message = ScenarioMessage
     /\ answered[t]
     /\ output[t] = {}
     /\ sendLog.ok = AllSent) =>
      /\ botResponse.intentHint = "task"
      /\ Started(t)
      /\ lastEvent[t] = "completed"
      /\ sendLog.sent = <<NoOutputFallback>>

\* ---- C19 ---------------------------------------------------------------

\* the promise of classifyIntent is resolved once at most
SettlesOnce == classifier.resolveCalls <= 1

\* once the spawn has thrown, the timeout has fired or the process has raised
\* an error or closed, the promise is resolved
SettledWhenEnded == classifier.seen # {} => classifier.resolveCalls = 1

\* the classifier wrote nothing that is an answer
Unparsable ==
  \A i \in 1..Len(classifier.stdout) : classifier.stdout[i] = "garbage"

\* a step in which the classification fails: the timeout, an error of the
\* process, a close without an answer, or a spawn that throws
ClassificationFails(outcome) ==
  \/ ~classifier.settled /\ ClassifierTimeout(outcome)
  \/ ~classifier.settled /\ ClassifierError(outcome)
  \/ ~classifier.settled /\ Unparsable /\ ClassifierClose(outcome)
  \/ \E b \in Sessions, content \in ChatTexts :
       /\ intentRoutingEnabled
       /\ inferIntentHint(content) = "ambiguous"
       /\ IncomingText(b, content, "throw", outcome)

\* a failed classification resolves to task with confidence 0, the task is
\* dispatched in the default notify mode, and nothing is sent to the chat
FailsSoftAndDispatches ==
  \A outcome \in SpawnOutcomes :
    ClassificationFails(outcome) =>
      /\ classifier'.resolveCalls = 1
      /\ classifier'.result.label = "task"
      /\ classifier'.result.confidence = 0
      /\ nextId' = nextId + 1
      /\ responseMode'[nextId] = DEFAULT_NOTIFY_MODE
      /\ sendLog' = sendLog

CardMessage == [msgType |-> "interactive", content |-> "card"]

\* the plain-text rendering of the response sent last
TextMessage == [msgType |-> "text", content |-> sendLog.response.text]

\* the follow-up messages of the response sent last
FollowupMessages ==
  IF Trim(sendLog.response.followupText) = "" THEN <<>>
  ELSE <<[msgType |-> "text", content |-> sendLog.response.followupText]>>

\* m is among the messages
Among(m, messages) == \E i \in 1..Len(messages) : messages[i] = m

\* C20: for a response that carries both a card and a non-empty text: if
\* sending the interactive card fails, the failure is caught and the plain
\* text is sent instead; if the card is sent, the plain text is not sent, only
\* the follow-up text, if any. So the result reaches the chat in exactly one
\* of the two renderings and is not lost because the card could not be sent.
C20_CardFallback ==
  (/\ sendLog.calls = 1
   /\ sendLog.response.card
   /\ Trim(sendLog.response.text) # "") =>
    /\ ~sendLog.ok.interactive =>
         /\ sendLog.tried = <<CardMessage, TextMessage>>
         /\ sendLog.ok.text => (sendLog.sent = <<TextMessage>> /\ ~sendLog.threw)
    /\ sendLog.ok.interactive =>
         /\ sendLog.tried = <<CardMessage>> \o FollowupMessages
         /\ ~Among(TextMessage, sendLog.tried)
    /\ sendLog.ok.text =>
         (Among(CardMessage, sendLog.sent) # Among(TextMessage, sendLog.sent))

\* a response with card and text whose card could not be sent reached the chat
\* as text
C20_Witness ==
  /\ sendLog.calls = 1
  /\ sendLog.response.card
  /\ Trim(sendLog.response.text) # ""
  /\ ~sendLog.ok.interactive
  /\ sendLog.sent = <<TextMessage>>

\* ---- C24 ---------------------------------------------------------------

TerminalStatuses == {"completed", "failed", "cancelled"}

\* the status moves one step along none/pending -> running -> terminal
StatusMovesForward ==
  \A t \in Tasks :
    status'[t] # status[t] =>
      \/ status[t] = "none" /\ status'[t] \in {"pending", "running", "failed"}
      \/ status[t] = "pending" /\ status'[t] \in {"running", "failed"}
      \/ status[t] = "running" /\ status'[t] \in TerminalStatuses

\* the record of a task whose status is terminal does not change
TerminalRecordFrozen ==
  \A t \in Tasks :
    status[t] \in TerminalStatuses =>
      /\ status'[t] = status[t]
      /\ taskError'[t] = taskError[t]
      /\ output'[t] = output[t]

\* C24: a task's status only moves along pending -> running -> completed,
\* failed or cancelled, and once it is completed, failed or cancelled the
\* record is immutable: status and error never change again, the task never
\* returns to running and nothing is appended to its output.
C24_TerminalRecordImmutable == [][StatusMovesForward /\ TerminalRecordFrozen]_vars

\* ---- C25 ---------------------------------------------------------------

\* one task, started in a fresh conversation or with --session S1, whose
\* process reports the ids S1 and S2 in lines that come whole or in pieces
SessionChunks == {c \in Chunks : c.text \in {"session", "session2", "raw", ""}}

InitSession == InitWith([tasks |-> ParserTasks, chunks |-> SessionChunks], {0}, {TRUE})

NextSession ==
  \/ \E model \in BOOLEAN, sid \in {NoSession, "S1"}, outcome \in SpawnOutcomes :
       Execute(model, sid, outcome)
  \/ \E outcome \in SpawnOutcomes : ResumeStartTask(outcome)
  \/ \E t \in Tasks : CancelTask(t)
  \/ \E t \in Tasks, chunk \in limit.chunks : StdoutData(t, chunk)
  \/ \E t \in Tasks : StderrData(t)
  \/ \E t \in Tasks : ProcExit(t)
  \/ \E t \in Tasks, code \in ExitCodes, outcome \in SpawnOutcomes : ProcClose(t, code, outcome)

SessionSpec == InitSession /\ [][NextSession]_vars

\* the id carried by the line that the chunk completes
CarriedId(t, chunk) == extractSessionId(Join(stdoutBuffer[t], chunk.text))

\* a chunk that completes a line with an id other than the task's: the id is
\* taken over and task:session is emitted
NewIdEmits ==
  \A t \in Tasks, chunk \in SessionChunks :
    (StdoutData(t, chunk) /\ chunk.nl
       /\ CarriedId(t, chunk) \notin {NoSession, sessionId[t]})
    => (sessionId'[t] = CarriedId(t, chunk) /\ lastEvent'[t] = "session")

\* any other chunk leaves the id alone and emits nothing
OtherLinesSilent ==
  \A t \in Tasks, chunk \in SessionChunks :
    (StdoutData(t, chunk)
       /\ (~chunk.nl \/ CarriedId(t, chunk) \in {NoSession, sessionId[t]}))
    => (sessionId'[t] = sessionId[t] /\ lastEvent'[t] = lastEvent[t])

\* the id of a task changes with a task:session event only
IdChangesWithEvent ==
  \A t \in Tasks :
    (status[t] # "none" /\ sessionId'[t] # sessionId[t] /\ proc'[t] # "closed")
    => lastEvent'[t] = "session"

\* C25: task:session is emitted exactly when a parsed stdout line carries a
\* session id that differs from the task's current agent-conversation id, and
\* the task's id becomes that id; a line repeating the current id emits
\* nothing, so a task started with --session S emits no session event while
\* the process keeps reporting S.
C25_SessionEventOnChange ==
  [][NewIdEmits /\ OtherLinesSilent /\ IdChangesWithEvent]_vars

\* a task that held S1 has reported S2
C25_Witness ==
  \E t \in Tasks : sessionId[t] = "S2" /\ lastEvent[t] = "session" /\ status[t] = "running"

\* ---- C23 ---------------------------------------------------------------

\* the argument of a /notify command
NotifyArgs == {"current", "quiet", "normal", "loud"}

\* handleNotifyCommand(chatId, sessionId, notifyCommand)
handleNotifyCommand(modes, b, arg) ==
  IF arg \in {"quiet", "normal", "debug"} THEN [modes EXCEPT ![b] = arg] ELSE modes

\* handleIncomingMessage for the text /notify <arg>
NotifyCommand(b, arg) ==
  /\ sessionNotifyMode' = handleNotifyCommand(sessionNotifyMode, b, arg)
  /\ UNCHANGED <<coreVars, handlerVars, frontVars, pendingFiles, routingDefault>>

\* handleIncomingMessage for a file message: handleIncomingFileMessage keeps
\* the file for the next task of the session once it is downloaded
FileMessage(b, downloaded) ==
  /\ pendingFiles' = [pendingFiles EXCEPT ![b] = @ \/ downloaded]
  /\ UNCHANGED <<coreVars, handlerVars, frontVars, sessionNotifyMode, routingDefault>>

NextMode ==
  \/ \E b \in Sessions, arg \in NotifyArgs : NotifyCommand(b, arg)
  \/ \E b \in Sessions, downloaded \in BOOLEAN : FileMessage(b, downloaded)
  \/ \E b \in Sessions, content \in ChatTexts, spawned \in SpawnOutcomes,
        outcome \in SpawnOutcomes : IncomingText(b, content, spawned, outcome)
  \/ \E data \in ClassifierOutputs : ClassifierStdout(data)
  \/ \E outcome \in SpawnOutcomes : ClassifierTimeout(outcome)
  \/ ClassifierKillTimerFire
  \/ \E outcome \in SpawnOutcomes : ClassifierError(outcome)
  \/ \E outcome \in SpawnOutcomes : ClassifierClose(outcome)

InitMode ==
  /\ InitExecutor([tasks |-> ChatTasks, chunks |-> {}], {0}, {TRUE})
  /\ requireMention = TRUE
  /\ message = NoMessage
  /\ botResponse = NullResponse
  /\ InitFront(BOOLEAN, {TRUE})

\* messages of a session, /notify and files included, up to the dispatch
ModeSpec == InitMode /\ [][NextMode]_vars

\* the task dispatched by this step
Dispatched(t) == t = nextId /\ nextId' = nextId + 1

\* the label of the classifier says chat with enough confidence
ClassifiedChat(result) ==
  result.label = "chat" /\ result.confidence >= IntentRoutingConfidence

\* the response mode the routing rules give to the message dispatched
RuledMode(hint, sessionMode, result) ==
  IF hint = "chat" THEN "silent"
  ELSE IF hint = "task" THEN sessionMode
  ELSE IF ClassifiedChat(result) THEN "silent" ELSE sessionMode

\* C23: a message with intent hint chat is dispatched with response mode
\* silent, one with hint task with the notify mode of its session (quiet by
\* default), and an ambiguous one, when intent routing is enabled, is
\* classified by the agent and dispatched silent if and only if the label is
\* chat with confidence at least the threshold, else with the session's mode.
C23_ModeByIntent ==
  [][\A t \in Tasks :
       (Dispatched(t) /\ (botResponse'.intentHint = "ambiguous" => intentRoutingEnabled))
       => responseMode'[t] = RuledMode(botResponse'.intentHint,
                                       getSessionTaskMode(origin'[t]),
                                       classifier'.result)]_vars

\* ---- C27 ---------------------------------------------------------------

\* the bridge adds a task to the history of its session once, at dispatch
AddTaskToSession(b, t) ==
  /\ taskSessionIndex[t] = NoBridge
  /\ Commit(addTaskToSession(Cur, b, t))

\* the handler updates a task whenever the bridge reports on it
UpdateTask(t) ==
  /\ Commit(updateTask(Cur, t))

InitRegistry == InitWith([tasks |-> 0, chunks |-> {}], {0}, {TRUE})

NextRegistry ==
  \/ \E b \in Sessions, t \in 1..RegistryTasks : AddTaskToSession(b, t)
  \/ \E t \in 1..RegistryTasks : UpdateTask(t)

\* the session registry alone: more tasks than a history holds
RegistrySpec == InitRegistry /\ [][NextRegistry]_vars

\* the task's place among the tasks added to the session
AddedAt(b, t) == findIndex(addOrder[b], t)

HistoryBounded == \A b \in Sessions : Len(taskHistory[b]) <= MAX_HISTORY

HistoryWithoutRepeat ==
  \A b \in Sessions : \A i, j \in 1..Len(taskHistory[b]) :
    taskHistory[b][i] = taskHistory[b][j] => i = j

HistoryInAddOrder ==
  \A b \in Sessions : \A i, j \in 1..Len(taskHistory[b]) :
    i < j => AddedAt(b, taskHistory[b][i]) < AddedAt(b, taskHistory[b][j])

InHistory(h, t) == findIndex(h, t) > 0

\* an entry leaves a history only when the history is full, and then every
\* entry that stays was added after it
DropsOldestOnly ==
  \A b \in Sessions, t \in Tasks :
    (InHistory(taskHistory[b], t) /\ ~InHistory(taskHistory'[b], t)) =>
      /\ Len(taskHistory[b]) = MAX_HISTORY
      /\ \A u \in Tasks : InHistory(taskHistory'[b], u) => AddedAt(b, t) < findIndex(addOrder'[b], u)

\* C27: after any sequence of addTaskToSession and updateTask calls a
\* session's history holds at most MAX_HISTORY entries, holds each task id at
\* most once, keeps the entries in the order the tasks were first added, and
\* only ever drops the oldest entries when over capacity.
C27_BoundedOrderedHistory ==
  [] (HistoryBounded /\ HistoryWithoutRepeat /\ HistoryInAddOrder)
  /\ [][DropsOldestOnly]_vars

\* ---- the notifications of the bridge ----------------------------------------

\* the stdout line of a step_start event without a step kind: the status
\* "正在处理步骤"
StepLine == [text |-> "step", nl |-> TRUE]

\* handleIncomingMessage for a command for the agent, the mode being what
\* resolveResponseMode or the session's mode gave; files says whether pending
\* files are attached
DispatchAs(b, mode, files, outcome) ==
  /\ LoopIdle
  /\ nextId <= limit.tasks
  /\ Commit(dispatchTaskWith(Cur, b, mode, files, outcome))

\* the promise of a send settles: ok says which kinds of message the platform
\* accepts.  The listener goes on behind its await, or ends with the
\* exception, which nothing catches
SendSettles(x, ok) ==
  /\ LoopIdle
  /\ x \in inflight
  /\ x.at # "rm"
  /\ LET t == x.task
         s0 == [Cur EXCEPT !.inflight = @ \ {x}]
     IN  IF sendBotResponse(x.response, ok).threw
         THEN Commit([s0 EXCEPT !.unhandled[t] = TRUE])
         ELSE CASE x.at = "progress" ->
                     Commit([s0 EXCEPT !.lastUpdateTime[t] = 0])
                [] x.at = "flush" ->
                     Commit(terminalCleanup([s0 EXCEPT !.lastUpdateTime[t] = 0],
                                            t, x.event, x.mode))
                [] x.at = "final" ->
                     Commit([s0 EXCEPT !.handled[t] = TRUE])
                [] OTHER -> Commit(s0)

\* rm() of the attached files settles; cleanupTaskFiles catches its failure
FilesRemoved(x) ==
  /\ LoopIdle
  /\ x \in inflight
  /\ x.at = "rm"
  /\ Commit(terminalReport([Cur EXCEPT !.inflight = @ \ {x}], x.task, x.event, x.mode))

Older(age) == IF age = -1 THEN -1 ELSE Min(MaxAge, age + 1)

\* a unit of time passes
Elapse ==
  /\ LoopIdle
  /\ \E t \in Tasks : Older(lastUpdateTime[t]) # lastUpdateTime[t]
                        \/ Older(sinceMsg[t]) # sinceMsg[t]
  /\ Commit([Cur EXCEPT !.lastUpdateTime = [t \in Tasks |-> Older(@[t])],
                        !.sinceMsg = [t \in Tasks |-> Older(@[t])]])

NotifyModes == {"quiet", "normal", "debug"}

InitNotify ==
  InitWith([tasks |-> NotifyTasks, chunks |-> {StepLine}, sends |-> SendOutcomes],
           {0}, {TRUE})

\* the platform has settled sends before more than MaxInflight listeners wait
PlatformKeepsUp == Cardinality(inflight) < MaxInflight

NextNotify ==
  \/ \E mode \in NotifyModes, files \in BOOLEAN, outcome \in SpawnOutcomes :
       DispatchAs(<<"u1", "c1">>, mode, files, outcome)
  \/ \E t \in Tasks : PlatformKeepsUp /\ CancelTask(t)
  \/ \E t \in Tasks, chunk \in limit.chunks : PlatformKeepsUp /\ StdoutData(t, chunk)
  \/ \E t \in Tasks : PlatformKeepsUp /\ StderrData(t)
  \/ \E t \in Tasks : ProcExit(t)
  \/ \E t \in Tasks, code \in ExitCodes, outcome \in SpawnOutcomes :
       PlatformKeepsUp /\ ProcClose(t, code, outcome)
  \/ \E x \in inflight, ok \in limit.sends : SendSettles(x, ok)
  \/ \E x \in inflight : FilesRemoved(x)
  \/ Elapse

\* the bridge with its lifecycle listeners and the chat platform: one task in
\* a notification mode, its progress, its end and the sends
NotifySpec == InitNotify /\ [][NextNotify]_vars

\* ---- C21 --------------------------------------------------------------------

\* C21: a chat-platform call that rejects while the bridge reports a lifecycle
\* event of a task is caught at the bridge: no lifecycle listener ends with
\* the rejection as an exception that nothing handles.
C21_SendFailuresCaught == \A t \in Tasks : ~unhandled[t]

\* ---- C22 --------------------------------------------------------------------

\* C22: for a task in normal or debug mode, a progress message that is not
\* forced is handed to the chat no sooner than the interval of the mode after
\* the one before it and after the started message, also when its
\* task:progress event comes while an earlier progress send still waits for
\* the platform.
C22_ProgressThrottled ==
  \A t \in Tasks : infoMode[t] \in ProgressModes => ~early[t]

\* ---- C28 --------------------------------------------------------------------

\* the maps of the bridge that are keyed by the task id hold nothing for t
NoTransientState(t) ==
  /\ ~pendingProgress[t].has
  /\ lastUpdateTime[t] = -1
  /\ ~taskAttachedFiles[t]
  /\ responseMode[t] = "none"
  /\ taskBridgeSession[t] = NoBridge

\* C28: once the listener of a task's terminal event has run to its end, the
\* pending-progress buffer, the last-update timestamps, the attached-files
\* map, the response-mode map and the task-to-session map hold no entry for
\* the task, whatever the order of the executor's events and of the
\* bookkeeping of the dispatch.
C28_TransientStateCollected ==
  \A t \in Tasks : handled[t] => NoTransientState(t)

\* ---- C26 --------------------------------------------------------------------

\* C26: the reverse index of the session registry maps a task to one session
\* at most, and once the terminal event of the task has been handled and its
\* response produced, the index holds no entry for the task.
C26_ReverseIndexPruned ==
  \A t \in Tasks : handled[t] => taskSessionIndex[t] = NoBridge

\* ---- C30 --------------------------------------------------------------------

\* a terminal event of t is handled in this step while lines are pending
EndsWithPending(t) ==
  /\ terminals'[t] > terminals[t]
  /\ infoMode[t] \in ProgressModes
  /\ pendingProgress[t].chunks # {}

\* the message handed to the chat in this step is a progress message built
\* from the pending lines
FlushedAtEnd(t) ==
  /\ lastSent'[t] = "flush"
  /\ \E x \in inflight' : x.task = t /\ x.at = "flush"
                            /\ x.lines = pendingProgress[t].chunks

\* the final message is not handed to the chat while pending lines are owed
FinalAfterFlush(t) == lastSent'[t] = "final" => owed'[t] = {}

\* C30: for a task in normal or debug mode whose pending-progress buffer is
\* not empty when its terminal event is handled, one progress message built
\* from the buffer is sent, whatever the throttle interval, before the message
\* that carries the result, the error or the cancellation notice.
C30_ForcedFlush ==
  [][\A t \in Tasks : /\ EndsWithPending(t) => FlushedAtEnd(t)
                      /\ FinalAfterFlush(t)]_vars

\* a forced progress message waits at the platform although the interval
\* since the last update has not passed, and the final message is not sent yet
C30_Witness ==
  \E x \in inflight :
    /\ x.at = "flush"
    /\ x.lines # {}
    /\ lastSent[x.task] = "flush"
    /\ terminals[x.task] = 1
    /\ lastUpdateTime[x.task] # -1
    /\ lastUpdateTime[x.task] < Interval(x.mode)

\* ---- C29 --------------------------------------------------------------------

SuppressModes == {"silent", "quiet"}

\* the platform accepts every message
Accepting == [interactive |-> TRUE, text |-> TRUE]

InitSuppress ==
  InitWith([tasks |-> SuppressTasks, chunks |-> {StepLine}, sends |-> {Accepting}],
           {0}, {TRUE})

NextSuppress ==
  \/ \E mode \in SuppressModes, outcome \in SpawnOutcomes :
       DispatchAs(<<"u1", "c1">>, mode, FALSE, outcome)
  \/ \E outcome \in SpawnOutcomes : ResumeStartTask(outcome)
  \/ \E t \in Tasks : PlatformKeepsUp /\ CancelTask(t)
  \/ \E t \in Tasks, chunk \in limit.chunks : PlatformKeepsUp /\ StdoutData(t, chunk)
  \/ \E t \in Tasks : ProcExit(t)
  \/ \E t \in Tasks, code \in ExitCodes, outcome \in SpawnOutcomes :
       PlatformKeepsUp /\ ProcClose(t, code, outcome)
  \/ \E x \in inflight, ok \in limit.sends : SendSettles(x, ok)

\* the bridge with its lifecycle listeners and the chat platform: two tasks in
\* the silent or the quiet mode, the second one queued behind the first
SuppressSpec == InitSuppress /\ [][NextSuppress]_vars

\* C29: for a task dispatched in silent mode no queued, started or progress
\* message is handed to the chat; for a task dispatched in quiet mode no
\* progress message is handed to the chat, neither while it runs nor as a
\* flush at its end.
C29_VerbositySuppressed ==
  \A t \in Tasks :
    /\ infoMode[t] = "silent"
         => lastSent[t] \notin {"queued", "started", "progress", "flush"}
    /\ infoMode[t] = "quiet" => lastSent[t] \notin {"progress", "flush"}

\* a silent task that was queued, started and reported progress has ended and
\* its terminal response is handed to the chat, and so has a quiet task that
\* reported progress
C29_Witness ==
  \E t, u \in Tasks :
    /\ infoMode[t] = "silent" /\ wasQueued[t] /\ lastSig[t] # ""
    /\ lastSent[t] = "final"
    /\ infoMode[u] = "quiet" /\ lastSig[u] # ""
    /\ lastSent[u] = "final"

\* ---- C39 --------------------------------------------------------------------

\* no task was started twice
StartedOnce == \A i, j \in 1..Len(startOrder) : startOrder[i] = startOrder[j] => i = j

\* C39: in every state reached through execute(), the events of the child
\* processes and cancelTask, runningCount is the number of entries of the map
\* of running tasks and is not negative, and a task counts in it once at most:
\* it is counted once when it starts and discounted once when it is finalized.
C39_RunningCountMatches ==
  /\ runningCount = Cardinality(runningTasks)
  /\ runningCount >= 0
  /\ StartedOnce
  /\ \A t \in Tasks : finalized[t] => t \notin runningTasks

\* one task was started, counted and finalized, and the task started after it
\* is the one the counter counts
C39_Witness ==
  /\ Len(startOrder) >= 2
  /\ finalized[startOrder[1]]
  /\ runningTasks = {startOrder[2]}
  /\ runningCount = 1

\* ---- C37 --------------------------------------------------------------------

ProgressChunks == {[text |-> k, nl |-> TRUE] : k \in ToolUses \cup {"step"}}

InitProgress == InitWith([tasks |-> ParserTasks, chunks |-> ProgressChunks], {0}, {TRUE})

NextProgress ==
  \/ \E model \in BOOLEAN, outcome \in SpawnOutcomes : Execute(model, NoSession, outcome)
  \/ \E outcome \in SpawnOutcomes : ResumeStartTask(outcome)
  \/ \E t \in Tasks : CancelTask(t)
  \/ \E t \in Tasks, chunk \in limit.chunks : StdoutData(t, chunk)
  \/ \E t \in Tasks : StderrData(t)
  \/ \E t \in Tasks : ProcExit(t)
  \/ \E t \in Tasks, code \in ExitCodes, outcome \in SpawnOutcomes : ProcClose(t, code, outcome)

\* the executor in status-only mode with an agent that reports the uses of a
\* tool, writing its title in several ways, steps and stderr output
ProgressSpec == InitProgress /\ [][NextProgress]_vars

\* C37: in status-only mode no two task:progress events of a task that follow
\* each other carry the same status, compared without regard to whitespace
\* and case: a status equal to the one emitted before is suppressed.
C37_NoRepeatedStatus == \A t \in Tasks : ~repeated[t]

\* a status was suppressed that differs from the one emitted before it only
\* in case or whitespace
C37_Witness ==
  \E t \in Tasks : /\ suppressed[t]
                   /\ progressText[t] = "call Read"
                   /\ lastSig[t] = "call read"

\* ---- C38 --------------------------------------------------------------------

\* chunks that end in the middle of a line
PartialLines == {c \in Chunks : ~c.nl}

InitClose == InitWith([tasks |-> ParserTasks, chunks |-> PartialLines], {0}, {TRUE})

NextClose ==
  \/ \E model \in BOOLEAN, outcome \in SpawnOutcomes : Execute(model, NoSession, outcome)
  \/ \E outcome \in SpawnOutcomes : ResumeStartTask(outcome)
  \/ \E t \in Tasks : CancelTask(t)
  \/ \E t \in Tasks, chunk \in limit.chunks : StdoutData(t, chunk)
  \/ \E t \in Tasks, outcome \in SpawnOutcomes : ProcError(t, outcome)
  \/ \E t \in Tasks : ProcExit(t)
  \/ \E t \in Tasks, code \in ExitCodes, outcome \in SpawnOutcomes : ProcClose(t, code, outcome)

\* a process whose stdout ends without a newline, under cancellation and
\* 'error' events of the child
CloseSpec == InitClose /\ [][NextClose]_vars

\* the 'close' handler runs for a task whose buffer holds a last line
ClosesWithResidual(t) ==
  proc[t] = "exited" /\ proc'[t] = "closed" /\ stdoutBuffer[t] # ""

\* C38: when the process of a task closes with a last line without newline in
\* the buffer, that line is parsed, with its output, session id and status
\* effects, before a terminal event of the task is emitted: no terminal
\* event of the task precedes the 'close' handler that parses it.
C38_ResidualBeforeTerminal ==
  [][\A t \in Tasks : ClosesWithResidual(t) => terminals[t] = 0]_vars

\* the part of C38 about task:completed: a task that completes had no
\* terminal event before the handler that parsed its last line
ResidualBeforeCompleted ==
  [][\A t \in Tasks : ClosesWithResidual(t) /\ status'[t] = "completed"
                        => terminals[t] = 0 /\ terminals'[t] = 1 /\ ~late'[t]]_vars

\* ---- C32 --------------------------------------------------------------------

\* whole lines that are no event of a recognised shape
OddChunks == {[text |-> k, nl |-> TRUE] : k \in OddLines \cup {"raw"}}

InitOdd == InitWith([tasks |-> ParserTasks, chunks |-> OddChunks \cup {StepLine}], {0}, BOOLEAN)

\* an agent that writes lines which are no events, in both progress modes
OddSpec == InitOdd /\ [][NextParser]_vars

\* C32: every stdout line that is not empty and is no event of a recognised
\* shape (not JSON, a JSON object of unknown type, a JSON value that is no
\* object) is appended to the output of the task as raw text, and handling
\* it does not throw out of the stdout handler.
C32_OddLinesKeptAsRaw ==
  [][\A t \in Tasks, chunk \in OddChunks :
       StdoutData(t, chunk) /\ stdoutBuffer[t] = ""
         => chunk.text \in output'[t] /\ ~threw'[t]]_vars

\* the part of C32 about lines that are not JSON
RawLinesKept ==
  [][\A t \in Tasks, chunk \in RawLines :
       StdoutData(t, chunk) => "raw" \in output'[t] /\ ~threw'[t]]_vars

\* the stdout handler does not throw
NoThrow == \A t \in Tasks : ~threw[t]

\* ---- C40 --------------------------------------------------------------------

MaxStream == 5         \* bytes a process writes to stdout in StreamSpec

\* the bytes of stdout: a letter, white space ("ws"), the newline, and the
\* two bytes "e1" "e2" that encode one character in UTF-8, written "e"
StreamBytes == {"x", "ws", "nl", "e1", "e2"}

\* the process writes text: every lead byte is followed by its continuation
WellFormed(bytes) ==
  \A i \in 1..Len(bytes) :
    /\ bytes[i] = "e1" => i < Len(bytes) /\ bytes[i + 1] = "e2"
    /\ bytes[i] = "e2" => i > 1 /\ bytes[i - 1] = "e1"

Streams == {bytes \in UNION {[1..n -> StreamBytes] : n \in 0..MaxStream} : WellFormed(bytes)}

\* Buffer.prototype.toString(): UTF-8 decoding of the chunk by itself; a
\* lead byte without continuation and a continuation without lead byte
\* become U+FFFD, here "?"
RECURSIVE toString(_)
toString(data) ==
  IF data = <<>> THEN <<>>
  ELSE IF Head(data) = "e1" /\ Len(data) > 1 /\ data[2] = "e2"
  THEN <<"e">> \o toString(Tail(Tail(data)))
  ELSE IF Head(data) \in {"e1", "e2"} THEN <<"?">> \o toString(Tail(data))
  ELSE <<Head(data)>> \o toString(Tail(data))

\* String.prototype.indexOf(ch), counted from 1; 0 where indexOf gives -1
RECURSIVE IndexFrom(_, _, _)
IndexFrom(text, ch, i) ==
  IF i > Len(text) THEN 0
  ELSE IF text[i] = ch THEN i
  ELSE IndexFrom(text, ch, i + 1)

indexOf(text, ch) == IndexFrom(text, ch, 1)

\* handleStdoutLine, as far as the line is concerned: a line that is blank
\* after trim() is skipped, any other is parsed and handled, trimmed
handleStdoutLineText(f, line) ==
  IF TrimText(line) = <<>> THEN f
  ELSE [f EXCEPT !.lines = Append(@, TrimText(line))]

\* the while loop of handleTaskStdout: a line is cut off the buffer at each
\* newline and handled
RECURSIVE takeLines(_)
takeLines(f) ==
  IF indexOf(f.stdoutBuffer, "nl") = 0 THEN f
  ELSE takeLines(handleStdoutLineText(
         [f EXCEPT !.stdoutBuffer = SubSeq(@, indexOf(@, "nl") + 1, Len(@))],
         SubSeq(f.stdoutBuffer, 1, indexOf(f.stdoutBuffer, "nl") - 1)))

\* handleTaskStdout(runningTask, data) for a Buffer of bytes
handleTaskStdoutText(f, data) ==
  IF toString(data) = <<>> THEN f
  ELSE takeLines([f EXCEPT !.stdoutBuffer = @ \o toString(data)])

\* flushStdoutBuffer on the characters of the buffer
flushStdoutBufferText(f) ==
  [(IF TrimText(f.stdoutBuffer) # <<>>
    THEN handleStdoutLineText(f, TrimText(f.stdoutBuffer)) ELSE f)
   EXCEPT !.stdoutBuffer = <<>>]

\* child.stdout 'data' with the next n bytes of the stream: the pipe cuts
\* the stream wherever it likes
FeedData(n) ==
  /\ ~stdoutFeed.closed
  /\ stdoutFeed.written + n <= Len(stdoutFeed.stream)
  /\ Commit([Cur EXCEPT !.stdoutFeed =
       [handleTaskStdoutText(@, SubSeq(@.stream, @.written + 1, @.written + n))
          EXCEPT !.written = @ + n,
                 !.midChar = @ \/ stdoutFeed.stream[stdoutFeed.written + n] = "e1"]])

\* child 'close', after the whole stream was delivered
FeedClose ==
  /\ ~stdoutFeed.closed
  /\ stdoutFeed.written = Len(stdoutFeed.stream)
  /\ Commit([Cur EXCEPT !.stdoutFeed = [flushStdoutBufferText(@) EXCEPT !.closed = TRUE]])

InitStream == InitWith([tasks |-> 0, chunks |-> {}, streams |-> Streams], {0}, {TRUE})

NextStream ==
  \/ \E n \in 1..MaxStream : FeedData(n)
  \/ FeedClose

\* one process whose stdout arrives cut into chunks in every possible way
StreamSpec == InitStream /\ [][NextStream]_vars

\* the lines handled when the whole stream arrives as one chunk
LinesOf(text) ==
  flushStdoutBufferText(handleTaskStdoutText(NewFeed(text), text)).lines

\* C40: the stdout parser is insensitive to chunk boundaries: however the
\* stream is cut into data chunks, the sequence of lines handled up to the
\* close of the process is the one handled when the stream arrives in one
\* piece.
C40_ChunkingInsensitive ==
  stdoutFeed.closed => stdoutFeed.lines = LinesOf(stdoutFeed.stream)

\* the part of C40 that holds: cuts between characters, in the middle of a
\* line or not, do not change the lines handled
CutsBetweenCharacters ==
  stdoutFeed.closed /\ ~stdoutFeed.midChar
    => stdoutFeed.lines = LinesOf(stdoutFeed.stream)

\* ---- C34 --------------------------------------------------------------------

\* C34: after /new, /model <id> or /model reset has taken effect for a
\* session, its stored conversation id stays empty until a task dispatched
\* after the command reports one: the first task dispatched in the session
\* after the command is invoked without --session.
C34_FreshAfterReset ==
  [][\A b \in Sessions, outcome \in SpawnOutcomes :
       Dispatch(b, outcome) /\ cleared[b] => sessionId'[nextId] = NoSession]_vars

\* ---- C35 --------------------------------------------------------------------

\* C35: after /model reset has been handled for a session, a task dispatched
\* in it before the next /model <id> runs without a model carried over from
\* before the reset: a task started under the old model that ends after the
\* reset does not re-install that model.
C35_NoModelAfterReset ==
  [][\A b \in Sessions, outcome \in SpawnOutcomes :
       Dispatch(b, outcome) /\ modelReset[b] => taskModel'[nextId] \notin Models]_vars

\* ---- C31 --------------------------------------------------------------------

MAX_PENDING_FILES == 5
MaxFiles == 7          \* file messages in FilesSpec

\* addPendingFile(sessionId, localPath): the path is pushed, then the list is
\* shifted while it is longer than MAX_PENDING_FILES
RECURSIVE shiftWhileLonger(_)
shiftWhileLonger(files) ==
  IF Len(files) > MAX_PENDING_FILES THEN shiftWhileLonger(Tail(files)) ELSE files

\* addPendingFile that keeps every path
addPendingFile_NoEviction(s, b, localPath) ==
  [s EXCEPT !.staged.pending[b] = Append(@, localPath),
            !.staged.count = @ + 1]

addPendingFile(s, b, localPath) ==
  [s EXCEPT !.staged.pending[b] = shiftWhileLonger(Append(@, localPath)),
            !.staged.count = @ + 1]

\* consumePendingFiles(sessionId): the list is taken out of the map
consumePendingFiles(s, b) == [s EXCEPT !.staged.pending[b] = <<>>]

\* handleIncomingMessage behind execute(): taskAttachedFiles gets the paths
attachFiles(s, t, filePaths) ==
  [s EXCEPT !.staged.given[t] = {filePaths[i] : i \in 1..Len(filePaths)}]

\* handleIncomingFileMessage for a file that was downloaded: its path, unique
\* by its time stamp, is staged for the session
StageFile(b) ==
  /\ LoopIdle
  /\ staged.count < MaxFiles
  /\ Commit(addPendingFile(Cur, b, staged.count + 1))

\* handleIncomingMessage for a task command: the pending files are consumed,
\* announced to the chat if there are any, and given to execute(); an
\* announcement that throws ends the handler in its catch
DispatchStaged(b, ok, outcome) ==
  /\ LoopIdle
  /\ nextId <= limit.tasks
  /\ IF staged.pending[b] # <<>> /\ ~ok.text
     THEN Commit(consumePendingFiles(Cur, b))
     ELSE Commit(attachFiles(
            dispatchTaskWith(consumePendingFiles(Cur, b), b, DEFAULT_NOTIFY_MODE,
                             staged.pending[b] # <<>>, outcome),
            nextId, staged.pending[b]))

InitFiles == InitWith([tasks |-> BridgeTasks, chunks |-> {}], {0}, {TRUE})

\* the session the files are sent in
FileSessions == {findSessionId("u1", "c1")}

NextFiles ==
  \/ \E b \in FileSessions : StageFile(b)
  \/ \E b \in FileSessions, ok \in SendOutcomes, outcome \in SpawnOutcomes :
       DispatchStaged(b, ok, outcome)
  \/ \E b \in FileSessions, ok \in SendOutcomes : NewCommand(b, ok)

\* file messages, task commands and /new in one session
FilesSpec == InitFiles /\ [][NextFiles]_vars

\* a list holds at most MAX_PENDING_FILES paths, oldest first, and no path
\* was given to two tasks
PendingBounded ==
  /\ \A b \in Sessions :
       /\ Len(staged.pending[b]) <= MAX_PENDING_FILES
       /\ \A i, j \in 1..Len(staged.pending[b]) :
            i < j => staged.pending[b][i] < staged.pending[b][j]
  /\ \A t1, t2 \in Tasks : t1 # t2 => staged.given[t1] \cap staged.given[t2] = {}

\* the oldest path leaves a full list when a file is staged
OldestEvicted ==
  \A b \in Sessions :
    StageFile(b) /\ Len(staged.pending[b]) = MAX_PENDING_FILES
      => staged.pending'[b] = Append(Tail(staged.pending[b]), staged.count + 1)

\* a dispatched task is given the whole list, which is left empty
DispatchTakesAll ==
  \A b \in Sessions, ok \in SendOutcomes, outcome \in SpawnOutcomes :
    DispatchStaged(b, ok, outcome) /\ nextId' # nextId
      => /\ staged.given'[nextId] =
              {staged.pending[b][i] : i \in 1..Len(staged.pending[b])}
         /\ staged.pending'[b] = <<>>

\* a session reset leaves the list empty and gives the files to no task;
\* /new resets the session once its acknowledgement is delivered
ResetDropsFiles ==
  \A b \in Sessions, ok \in SendOutcomes :
    NewCommand(b, ok) /\ ~sendBotResponse(NewSessionResponse, ok).threw
      => staged.pending'[b] = <<>> /\ staged.given' = staged.given

Contents == {"json:fix", "json:blank", "json:other", "raw:fix", "json:file"}

\* the events the platform may deliver: with or without event.message, its
\* chat_id and a sender id, from a user or an app, of type text or file
Events ==
  [message : BOOLEAN, chat : BOOLEAN, sender : BOOLEAN, senderType : {"user", "app"},
   messageType : {"text", "file"}, chatType : ChatTypes, content : Contents]

\* MessageHandler.parseMessageContent(event): the text field of the parsed
\* content; content that JSON.parse rejects is returned as it is
parseMessageContent(content) ==
  IF content \in {"json:fix", "raw:fix"} THEN <<"fix">>
  ELSE IF content = "json:blank" THEN <<"ws">>
  ELSE <<>>

\* parseFileContent(rawContent).fileKey is defined
hasFileKey(content) == content = "json:file"

\* MessageHandler.handleMessage(event): null without message, sender id or
\* chat id
handleMessageEvent(e, policy) ==
  IF ~e.message \/ ~e.sender \/ ~e.chat THEN NullResponse
  ELSE handleMessage(parseMessageContent(e.content), {}, e.chatType, policy)

\* handleIncomingMessage(event) up to the dispatch: what is sent to the chat,
\* whether a file is staged and whether the text goes to execute().  The
\* bridge's extractSenderId gives 'unknown' for an event without sender id
handleIncomingMessage(e, policy) ==
  IF e.senderType # "user" \/ ~e.message \/ ~e.chat
  THEN [NoInbound EXCEPT !.event = e]
  ELSE IF e.messageType = "file"
  THEN [event |-> e, replied |-> TRUE, executed |-> FALSE,
        staged |-> hasFileKey(e.content)]
  ELSE [event |-> e,
        replied |-> handleMessageEvent(e, policy).kind \notin {"null", "execute"},
        executed |-> handleMessageEvent(e, policy).command # <<>>
                       /\ handleMessageEvent(e, policy).kind \in {"execute", "reset"},
        staged |-> FALSE]

\* the platform delivers an event: the text of one that goes through is
\* dispatched in the session of the sender
InboundEvent(e, outcome) ==
  /\ LoopIdle
  /\ nextId <= limit.tasks
  /\ inbound = NoInbound
  /\ IF handleIncomingMessage(e, requireMention).executed
     THEN Commit(dispatchTask([Cur EXCEPT !.inbound = handleIncomingMessage(e, requireMention)],
                              findSessionId("u1", "c1"), outcome))
     ELSE Commit([Cur EXCEPT !.inbound = handleIncomingMessage(e, requireMention)])

InitInbound ==
  /\ InitExecutor([tasks |-> ParserTasks, chunks |-> {}], {0}, {TRUE})
  /\ requireMention \in BOOLEAN
  /\ message = NoMessage
  /\ botResponse = NullResponse
  /\ InitFront({FALSE}, {TRUE})

\* the response depends on nothing that an earlier event left behind, so one
\* event is delivered
NextInbound ==
  \E e \in Events, outcome \in SpawnOutcomes : InboundEvent(e, outcome)

\* the boundary of the bridge: one event of every shape
InboundSpec == InitInbound /\ [][NextInbound]_vars

\* the text of the event is empty or cannot be parsed
NoText(e) == e.content \in {"json:blank", "json:other", "raw:fix", "json:file"}

\* the events C36 speaks of
Malformed(e) ==
  \/ ~e.message \/ ~e.chat \/ ~e.sender
  \/ e.senderType # "user"
  \/ e.messageType = "text" /\ NoText(e)

\* C36: an inbound event without message, chat id or sender id, whose sender
\* type is not user, or whose text is empty or unparsable is discarded
\* silently: no execute() call and no message to the chat results from it.
C36_MalformedDiscarded ==
  (inbound # NoInbound /\ Malformed(inbound.event))
    => ~inbound.replied /\ ~inbound.executed /\ ~inbound.staged /\ nextId = 1

\* the part of C36 that holds: events without message or chat id, events of
\* senders that are no users, and text events without sender id or with a
\* JSON content whose text is empty
DiscardedAtBoundary ==
  (/\ inbound # NoInbound
   /\ \/ ~inbound.event.message \/ ~inbound.event.chat
      \/ inbound.event.senderType # "user"
      \/ /\ inbound.event.messageType = "text"
         /\ ~inbound.event.sender \/ inbound.event.content \in {"json:blank", "json:other", "json:file"})
    => ~inbound.replied /\ ~inbound.executed /\ ~inbound.staged /\ nextId = 1

\* ---- C33 --------------------------------------------------------------------

MaxOutput == 5                 \* characters of a completion output in CardSpec
CARD_DETAIL_MAX_LENGTH == 2    \* 2400 in the source, in characters of the model
FOLLOWUP_BREAK_WINDOW == 1     \* 120 in the source: how far a line break is looked for

\* the characters of an output: a letter, white space, the newline
OutputChars == {"x", "ws", "nl"}

Outputs == UNION {[1..n -> OutputChars] : n \in 0..MaxOutput}

\* String.prototype.trim on an output: white space and newlines go
RECURSIVE trim(_)
trim(text) ==
  IF text = <<>> THEN text
  ELSE IF Head(text) \in {"ws", "nl"} THEN trim(Tail(text))
  ELSE IF text[Len(text)] \in {"ws", "nl"} THEN trim(SubSeq(text, 1, Len(text) - 1))
  ELSE text

\* truncateText(text, maxLength).text without the note that follows a cut
truncateText(text, maxLength) ==
  IF Len(text) <= maxLength THEN text ELSE SubSeq(text, 1, maxLength)

\* where buildCardFollowupText starts the overflow, as the number of
\* characters before it: CARD_DETAIL_MAX_LENGTH, or behind the first line
\* break from there on if that is at most FOLLOWUP_BREAK_WINDOW away
followupStart(out) ==
  IF IndexFrom(out, "nl", CARD_DETAIL_MAX_LENGTH + 1) > 0
       /\ IndexFrom(out, "nl", CARD_DETAIL_MAX_LENGTH + 1) - 1 - CARD_DETAIL_MAX_LENGTH
            <= FOLLOWUP_BREAK_WINDOW
  THEN IndexFrom(out, "nl", CARD_DETAIL_MAX_LENGTH + 1)
  ELSE CARD_DETAIL_MAX_LENGTH

\* buildCardFollowupText(output) without its heading; <<>> for undefined
buildCardFollowupText(out) ==
  IF Len(out) <= CARD_DETAIL_MAX_LENGTH THEN <<>>
  ELSE trim(SubSeq(out, followupStart(out) + 1, Len(out)))

\* handleTaskComplete for an output shown in a card: the detail of the card
\* and the follow-up text
BuildCompletion(out) ==
  /\ LoopIdle
  /\ ~completion.built
  /\ Commit([Cur EXCEPT !.completion =
       [built |-> TRUE, output |-> out,
        detail |-> truncateText(out, CARD_DETAIL_MAX_LENGTH),
        followup |-> buildCardFollowupText(out)]])

InitCard == InitWith([tasks |-> 0, chunks |-> {}], {0}, {TRUE})

\* the card depends on nothing that an earlier task left behind, so one
\* completion is built
NextCard == \E out \in Outputs : BuildCompletion(out)

\* the completion card of every output of up to MaxOutput characters
CardSpec == InitCard /\ [][NextCard]_vars

\* the characters of a text that are no white space
RECURSIVE Visible(_)
Visible(text) ==
  IF text = <<>> THEN <<>>
  ELSE IF Head(text) \in {"ws", "nl"} THEN Visible(Tail(text))
  ELSE <<Head(text)>> \o Visible(Tail(text))

\* C33: for a completion output longer than the detail budget B of the card
\* the card shows output[0..B) and the follow-up text holds what remains,
\* output[B..]: detail and follow-up together lose no part of the output
\* (white space at the seam left aside).
C33_NothingLost ==
  (completion.built /\ Len(completion.output) > CARD_DETAIL_MAX_LENGTH)
    => /\ completion.detail = SubSeq(completion.output, 1, CARD_DETAIL_MAX_LENGTH)
       /\ Visible(completion.detail \o completion.followup) = Visible(completion.output)

\* the part of C33 that holds: the card shows the first B characters
DetailIsPrefix ==
  (completion.built /\ Len(completion.output) > CARD_DETAIL_MAX_LENGTH)
    => completion.detail = SubSeq(completion.output, 1, CARD_DETAIL_MAX_LENGTH)

====
